---------------------------- MODULE Spec2Model ----------------------------
(***************************************************************************)
(* Lead scoring and qualification engine (backend/services/scorer.py,      *)
(* backend/services/qualifier.py, backend/services/enrichment.py,          *)
(* backend/models/*.py).                                                   *)
(*                                                                         *)
(* Numbers.  Python floats are modelled as exact fixed-point integers:     *)
(*   category scores      tenths of a point           (7.2  -> 72)         *)
(*   weights              hundredths                  (0.25 -> 25)         *)
(*   pre-penalty totals   thousandths of a point      (Milli)              *)
(*   post-penalty totals  1/500000 of a point         (Unit)               *)
(* so that total * (1 - q/100) * 0.2 is exact.  Floating-point rounding is *)
(* not modelled.                                                           *)
(*                                                                         *)
(* Python values.  Every optional or dynamically typed value is a record   *)
(* [t, n, s, l]: t is the Python type, n the number (or the day number of  *)
(* a datetime), s the string, l the list elements.  Truthy is Python's     *)
(* truth test, so "if lead.data_quality_score" is false for None and 0.    *)
(*                                                                         *)
(* Strings are drawn from a fixed vocabulary; Lower and KeywordsIn are the *)
(* tables of str.lower() and of the substring test over that vocabulary.   *)
(***************************************************************************)
EXTENDS Integers, Sequences, FiniteSets, TLC

VARIABLES
    model,   \* LeadScoringEngine.model: the ScoringModel held by the engine
    lead,    \* the Lead the caller holds
    now,     \* the wall clock: [day, month] (datetime.now())
    op,      \* the last operation performed
    score,   \* the outcome of the last score_lead call
    qual,    \* the outcome of the last qualify_lead call
    prev,    \* an earlier score_lead call: [lead, now, score]
    args,    \* inputs of a function applied on its own
    ret,     \* its result
    leads_db,       \* app.leads_db: the leads stored by the API, by id
    leads_storage,  \* routes.leads_storage: the leads stored by the router, by id
    tasks,          \* the coroutines in flight, each with its position and locals
    semaphore       \* the free slots of the asyncio.Semaphore of batch_enrich_leads

vars ==
    <<model, lead, now, op, score, qual, prev, args, ret, leads_db, leads_storage,
      tasks, semaphore>>

-----------------------------------------------------------------------------
(* Python values *)

NoneV == [t |-> "none", n |-> 0, s |-> "", l |-> <<>>]
Num(x) == [t |-> "num", n |-> x, s |-> "", l |-> <<>>]
Bool(b) == [t |-> "bool", n |-> IF b THEN 1 ELSE 0, s |-> "", l |-> <<>>]
Str(x) == [t |-> "str", n |-> 0, s |-> x, l |-> <<>>]
Enum(x) == [t |-> "enum", n |-> 0, s |-> x, l |-> <<>>]
List(x) == [t |-> "list", n |-> 0, s |-> "", l |-> x]
\* a dict: l holds key1, value1, key2, value2, ...
Dict(x) == [t |-> "dict", n |-> 0, s |-> "", l |-> x]
\* a naive datetime: n is its day number
Date(d) == [t |-> "date", n |-> d, s |-> "", l |-> <<>>]
\* a nested pydantic model (metrics, tech_stack, buying_signals)
Obj(name) == [t |-> "obj", n |-> 0, s |-> name, l |-> <<>>]

\* bool(v)
Truthy(v) ==
    CASE v.t = "none" -> FALSE
      [] v.t \in {"num", "bool"} -> v.n # 0
      [] v.t = "str" -> v.s # ""
      [] v.t \in {"list", "dict"} -> v.l # <<>>
      [] OTHER -> TRUE

\* isinstance(v, (int, float)): bool is a subclass of int
IsNumber(v) == v.t \in {"num", "bool"}

\* len(d) of a dict
DictLen(v) == Len(v.l) \div 2

Range(f) == {f[i] : i \in DOMAIN f}

Min(a, b) == IF a < b THEN a ELSE b
Max(a, b) == IF a > b THEN a ELSE b

-----------------------------------------------------------------------------
(* Strings *)

\* str.lower() over the vocabulary
Lower(s) ==
    CASE s = "Technology" -> "technology"
      [] s = "SaaS" -> "saas"
      [] s = "Manual Logistics" -> "manual logistics"
      [] s = "San Francisco, CA" -> "san francisco, ca"
      [] s = "Toronto, Canada" -> "toronto, canada"
      [] s = "London, UK" -> "london, uk"
      [] s = "Berlin, Germany" -> "berlin, germany"
      [] s = "Sydney, Australia" -> "sydney, australia"
      [] s = "Python" -> "python"
      [] s = "React" -> "react"
      [] s = "AWS" -> "aws"
      [] s = "PostgreSQL" -> "postgresql"
      [] s = "HubSpot" -> "hubspot"
      [] s = "Salesforce" -> "salesforce"
      [] s = "Google Analytics" -> "google analytics"
      [] s = "Docker" -> "docker"
      [] s = "Legacy CRM" -> "legacy crm"
      [] s = "VP Marketing" -> "vp marketing"
      [] s = "Marketing Manager" -> "marketing manager"
      [] s = "Marketing Automation Lead" -> "marketing automation lead"
      [] s = "Software Engineer" -> "software engineer"
      [] s = "Growth Lead, Digital Marketing" -> "growth lead, digital marketing"
      [] s = "International expansion" -> "international expansion"
      [] s = "CRM migration" -> "crm migration"
      [] s = "Budget approved" -> "budget approved"
      [] s = "New budget" -> "new budget"
      [] s = "Example Tech Corp" -> "example tech corp"
      [] s = "Acme Tools" -> "acme tools"
      [] OTHER -> s

\* the keywords of the scorers and analyzers that occur in a lower-case string
KeywordsIn(s) ==
    CASE s = "blog" -> {"blog"}
      [] s = "crm migration" -> {"crm", "migration"}
      [] s = "docker" -> {"docker"}
      [] s = "google analytics" -> {"analytics"}
      [] s = "growth lead, digital marketing" ->
             {"digital", "digital marketing", "growth", "growth lead", "marketing"}
      [] s = "https://acme.io/blog" -> {"blog"}
      [] s = "international expansion" -> {"expansion", "international"}
      [] s = "legacy crm" -> {"crm", "legacy"}
      [] s = "london, uk" -> {"uk"}
      [] s = "manual logistics" -> {"manual"}
      [] s = "marketing automation lead" -> {"automation", "marketing"}
      [] s = "marketing manager" -> {"marketing", "marketing manager"}
      [] s = "saas" -> {"saas"}
      [] s = "san francisco, ca" -> {"san francisco"}
      [] s = "software" -> {"software"}
      [] s = "software engineer" -> {"software"}
      [] s = "sydney, australia" -> {"australia", "us"}
      [] s = "technology" -> {"technology"}
      [] s = "toronto, canada" -> {"canada"}
      [] s = "vp marketing" -> {"marketing", "vp", "vp marketing"}
      [] OTHER -> {}

\* any(k in s for k in keywords), s already lower-case
AnyIn(keywords, s) == KeywordsIn(s) \cap keywords # {}

\* field.split('.') over the field paths of the rule sets
Split(s) ==
    CASE s = "metrics.employee_count" -> <<"metrics", "employee_count">>
      [] s = "metrics.last_funding_date" -> <<"metrics", "last_funding_date">>
      [] s = "metrics.missing" -> <<"metrics", "missing">>
      [] s = "tech_stack.technologies" -> <<"tech_stack", "technologies">>
      [] s = "buying_signals.decision_maker_changes" ->
             <<"buying_signals", "decision_maker_changes">>
      [] s = "industry.name" -> <<"industry", "name">>
      [] OTHER -> <<s>>

-----------------------------------------------------------------------------
(* Configuration: backend/models/scoring.py *)

Categories ==
    {"company_fit", "growth_indicators", "technology_fit",
     "engagement_signals", "timing_signals", "buying_signals"}

\* ScoringWeights(): 0.25, 0.20, 0.15, 0.15, 0.15, 0.10 in hundredths
DefaultWeights ==
    [company_fit |-> 25, growth_indicators |-> 20, technology_fit |-> 15,
     engagement_signals |-> 15, timing_signals |-> 15, buying_signals |-> 10]

\* an IdealCustomerProfile that targets an industry
DefaultICPTargeted ==
    [target_industries |-> List(<<"Technology">>), company_size_min |-> NoneV,
     company_size_max |-> NoneV, revenue_min |-> NoneV, revenue_max |-> NoneV,
     target_technologies |-> List(<<>>), target_roles |-> List(<<>>),
     geographic_regions |-> List(<<>>), funding_stages |-> List(<<>>),
     excluded_industries |-> List(<<>>), excluded_technologies |-> List(<<>>)]

\* IdealCustomerProfile(): empty lists and None
DefaultICP ==
    [target_industries |-> List(<<>>), company_size_min |-> NoneV,
     company_size_max |-> NoneV, revenue_min |-> NoneV, revenue_max |-> NoneV,
     target_technologies |-> List(<<>>), target_roles |-> List(<<>>),
     geographic_regions |-> List(<<>>), funding_stages |-> List(<<>>),
     excluded_industries |-> List(<<>>), excluded_technologies |-> List(<<>>)]

\* QualificationThresholds(): 80 / 60 / 40 points, data-quality floor 50
DefaultThresholds ==
    [hot_threshold |-> 80, warm_threshold |-> 60, cold_threshold |-> 40,
     min_data_quality |-> 50]

\* ScoringRule(name, category, condition, score_impact, weight = 1.0);
\* condition.get(key) is None for a key the dict does not hold
Rule(name, category, field, operator, value, impact, weight) ==
    [name |-> name, category |-> category,
     condition |-> [field |-> field, operator |-> operator, value |-> value],
     score_impact |-> impact, weight |-> weight]

\* ScoringModel.get_default_rules()
GetDefaultRules ==
    << Rule("Target Industry Match", "company_fit",
            Str("industry"), Str("in"), Str("target_industries"), 20, 100),
       Rule("Ideal Company Size", "company_fit",
            Str("employee_count"), Str("between"), NoneV, 15, 100),
       Rule("Recent Funding", "growth_indicators",
            Str("last_funding_date"), Str("within_days"), Num(180), 15, 100),
       Rule("High Hiring Velocity", "growth_indicators",
            Str("hiring_velocity"), Str("gt"), Num(5), 10, 100),
       Rule("Technology Stack Match", "technology_fit",
            Str("tech_stack"), Str("intersects"), Str("target_technologies"), 12, 100),
       Rule("Decision Maker Job Postings", "buying_signals",
            Str("job_postings"), Str("contains_roles"), Str("target_roles"), 25, 100),
       Rule("Competitor Technology", "timing_signals",
            Str("tech_stack"), Str("contains_competitor"), Bool(TRUE), 8, 100),
       Rule("Website Traffic Growth", "engagement_signals",
            Str("website_traffic_trend"), Str("eq"), Str("up"), 5, 100) >>

\* ScoringModel()
DefaultScoringModel ==
    [weights |-> DefaultWeights, icp |-> DefaultICP,
     thresholds |-> DefaultThresholds, global_rules |-> <<>>,
     max_score |-> 100, apply_data_quality_penalty |-> TRUE]

\* ScoringWeights.validate_weights(): raises unless |sum - 1.0| <= 0.01
ValidateWeightsRaises(w) ==
    LET total == w.company_fit + w.growth_indicators + w.technology_fit
                 + w.engagement_signals + w.timing_signals + w.buying_signals
    IN  total - 100 > 1 \/ 100 - total > 1

-----------------------------------------------------------------------------
(* LeadScoringEngine: backend/services/scorer.py *)

\* LeadScoringEngine.__init__: self.model = scoring_model or ScoringModel();
\* an empty global_rules is replaced by the default rules, on the model object
EngineInit(scoring_model) ==
    LET m == IF scoring_model.given THEN scoring_model.model ELSE DefaultScoringModel
    IN  IF m.global_rules = <<>> THEN [m EXCEPT !.global_rules = GetDefaultRules]
        ELSE m

\* self.industry_multipliers, in tenths
IndustryMultiplier(industry_lower) ==
    CASE industry_lower \in {"technology", "software"} -> 12
      [] industry_lower = "saas" -> 13
      [] industry_lower \in {"fintech", "e-commerce"} -> 11
      [] industry_lower = "healthcare" -> 10
      [] industry_lower = "marketing" -> 9
      [] industry_lower \in {"consulting", "retail"} -> 8
      [] industry_lower = "manufacturing" -> 7
      [] OTHER -> 0

IndustryMultiplierKeys ==
    {"technology", "software", "saas", "fintech", "healthcare", "e-commerce",
     "marketing", "consulting", "manufacturing", "retail"}

\* self.target_tech_stack
TargetTechStack ==
    {"python", "react", "node.js", "aws", "postgresql", "redis", "docker",
     "kubernetes", "api", "microservices"}

\* self.competitor_technologies
CompetitorTechnologies ==
    {"salesforce", "hubspot", "marketo", "pardot", "mailchimp",
     "constant-contact", "pipedrive"}

\* the outcome of an expression: its value, or an exception
Ok(x) == [v |-> x, err |-> FALSE]
Raised == [v |-> 0, err |-> TRUE]
Plus(a, b) == [v |-> a.v + b.v, err |-> a.err \/ b.err]

\* (datetime.now() - d).days
DaysSince(clock, d) == clock.day - d.n

\* number of elements of a list whose lower-case form is in a set
CountLowerIn(seq, set) == Cardinality({i \in DOMAIN seq : Lower(seq[i]) \in set})

\* number of elements of a list holding one of the keywords
CountAnyIn(seq, keywords) ==
    Cardinality({i \in DOMAIN seq : AnyIn(keywords, Lower(seq[i]))})

\* any(k in str(container).lower() for k in keywords): no keyword holds a
\* quote, so it occurs in the repr exactly when it occurs in an element
AnyInRepr(keywords, seq) == \E i \in DOMAIN seq : AnyIn(keywords, Lower(seq[i]))

-----------------------------------------------------------------------------
(* Category scorers.  Each returns its score in tenths of a point. *)

\* _score_company_size(employee_count); 8 * ratio is exact for the employee
\* counts and ICP minima of the leads and configurations below
ScoreCompanySize(m, employee_count) ==
    IF Truthy(m.icp.company_size_min) /\ Truthy(m.icp.company_size_max)
    THEN IF m.icp.company_size_min.n <= employee_count
            /\ employee_count <= m.icp.company_size_max.n
         THEN 80
         ELSE IF employee_count < m.icp.company_size_min.n
              THEN (80 * employee_count) \div m.icp.company_size_min.n
              ELSE 60
    ELSE IF 50 <= employee_count /\ employee_count <= 500 THEN 80
         ELSE IF 20 <= employee_count /\ employee_count <= 1000 THEN 60
         ELSE IF 10 <= employee_count /\ employee_count <= 2000 THEN 40
         ELSE 20

\* _score_geographic_fit(location)
ScoreGeographicFit(location) ==
    LET location_lower == Lower(location)
    IN  IF AnyIn({"san francisco", "new york", "seattle", "boston", "austin"},
                 location_lower) THEN 40
        ELSE IF AnyIn({"usa", "us", "united states", "canada"}, location_lower) THEN 30
        ELSE IF AnyIn({"uk", "australia", "ireland", "new zealand"}, location_lower)
             THEN 20
        ELSE 10

\* the body of "if lead.industry:": lead.industry.lower() raises on a non-string
IndustryPoints(m, industry) ==
    IF industry.t # "str" THEN Raised
    ELSE LET industry_lower == Lower(industry.s)
         IN  IF AnyIn(Range(m.icp.target_industries.l), industry_lower) THEN Ok(80)
             ELSE IF industry_lower \in IndustryMultiplierKeys
                  THEN Ok(6 * IndustryMultiplier(industry_lower))
                  ELSE Ok(30)

\* industry fit without the guard "if lead.industry:"
IndustryFitUnguarded(m, l) == IndustryPoints(m, l.industry)

\* industry fit: guarded by "if lead.industry:"
IndustryFit(m, l) ==
    IF Truthy(l.industry) THEN IndustryPoints(m, l.industry) ELSE Ok(0)

\* company size fit: guarded by "if lead.metrics.employee_count:";
\* comparing None with an int raises
SizeFit(m, l) ==
    IF Truthy(l.metrics.employee_count)
    THEN IF IsNumber(l.metrics.employee_count)
         THEN Ok(ScoreCompanySize(m, l.metrics.employee_count.n))
         ELSE Raised
    ELSE Ok(0)

\* revenue range fit: lead.metrics.revenue_range.value raises on None
RevenueFit(l) ==
    IF Truthy(l.metrics.revenue_range)
    THEN IF l.metrics.revenue_range.t = "enum" THEN Ok(50) ELSE Raised
    ELSE Ok(0)

\* geographic fit: guarded by "if lead.headquarters:"
GeographicFit(l) ==
    IF Truthy(l.headquarters)
    THEN IF l.headquarters.t = "str" THEN Ok(ScoreGeographicFit(l.headquarters.s))
         ELSE Raised
    ELSE Ok(0)

\* _score_company_fit
ScoreCompanyFit(m, l) ==
    Plus(Plus(IndustryFit(m, l), SizeFit(m, l)), Plus(RevenueFit(l), GeographicFit(l)))

\* recent funding: datetime.now() - None raises
FundingPoints(clock, l) ==
    IF Truthy(l.metrics.last_funding_date)
    THEN IF l.metrics.last_funding_date.t # "date" THEN Raised
         ELSE LET days_since_funding == DaysSince(clock, l.metrics.last_funding_date)
              IN  IF days_since_funding <= 90 THEN Ok(60)
                  ELSE IF days_since_funding <= 180 THEN Ok(40)
                  ELSE IF days_since_funding <= 365 THEN Ok(20)
                  ELSE Ok(0)
    ELSE Ok(0)

\* hiring velocity
HiringPoints(l) ==
    IF Truthy(l.buying_signals.recent_hiring)
    THEN IF ~IsNumber(l.buying_signals.recent_hiring) THEN Raised
         ELSE LET hiring_rate == l.buying_signals.recent_hiring.n
              IN  IF hiring_rate >= 10 THEN Ok(60)
                  ELSE IF hiring_rate >= 5 THEN Ok(40)
                  ELSE IF hiring_rate >= 2 THEN Ok(20)
                  ELSE Ok(0)
    ELSE Ok(0)

\* job postings counted without min(4, ...)
JobPostingPointsUncapped(l) ==
    IF Truthy(l.buying_signals.job_postings)
    THEN Ok(10 * Len(l.buying_signals.job_postings.l))
    ELSE Ok(0)

\* job postings: min(4, len(job_postings))
JobPostingPoints(l) ==
    IF Truthy(l.buying_signals.job_postings)
    THEN Ok(10 * Min(4, Len(l.buying_signals.job_postings.l)))
    ELSE Ok(0)

\* growth rate
GrowthRatePoints(l) ==
    IF Truthy(l.metrics.growth_rate)
    THEN IF ~IsNumber(l.metrics.growth_rate) THEN Raised
         ELSE IF l.metrics.growth_rate.n >= 50 THEN Ok(40)
         ELSE IF l.metrics.growth_rate.n >= 25 THEN Ok(30)
         ELSE IF l.metrics.growth_rate.n >= 10 THEN Ok(20)
         ELSE Ok(10)
    ELSE Ok(0)

\* _score_growth_indicators
ScoreGrowthIndicators(clock, l) ==
    Plus(Plus(FundingPoints(clock, l), HiringPoints(l)),
         Plus(JobPostingPoints(l), GrowthRatePoints(l)))

\* technologies + marketing_tools + sales_tools + analytics_tools
AllTechnologies(l) ==
    l.tech_stack.technologies.l \o l.tech_stack.marketing_tools.l
    \o l.tech_stack.sales_tools.l \o l.tech_stack.analytics_tools.l

\* _score_technology_fit
ScoreTechnologyFit(l) ==
    LET all_technologies == AllTechnologies(l)
        compatible == CountLowerIn(all_technologies, TargetTechStack)
        competitor == CountLowerIn(all_technologies, CompetitorTechnologies)
        modern == CountAnyIn(all_technologies,
                     {"api", "cloud", "microservices", "docker", "kubernetes", "saas"})
    IN  IF all_technologies = <<>> THEN Ok(0)
        ELSE Ok((IF compatible > 0 THEN 10 * Min(8, compatible * 2) ELSE 0)
                + (IF competitor > 0 THEN 10 * Min(5, competitor * 3) ELSE 0)
                + (IF modern > 0 THEN 20 ELSE 0))

\* website traffic rank
TrafficPoints(l) ==
    IF Truthy(l.website_traffic_rank)
    THEN IF ~IsNumber(l.website_traffic_rank) THEN Raised
         ELSE IF l.website_traffic_rank.n <= 100000 THEN Ok(50)
         ELSE IF l.website_traffic_rank.n <= 500000 THEN Ok(30)
         ELSE IF l.website_traffic_rank.n <= 1000000 THEN Ok(20)
         ELSE Ok(10)
    ELSE Ok(0)

\* data recency: (datetime.now() - lead.last_enriched).days <= 30
RecencyPoints(clock, l) ==
    IF Truthy(l.last_enriched)
    THEN IF l.last_enriched.t # "date" THEN Raised
         ELSE IF DaysSince(clock, l.last_enriched) <= 30 THEN Ok(20) ELSE Ok(0)
    ELSE Ok(0)

\* _score_engagement_signals
ScoreEngagementSignals(clock, l) ==
    LET social == IF Truthy(l.social_media_presence)
                  THEN 10 * Min(5, DictLen(l.social_media_presence) * 2) ELSE 0
        content == IF AnyInRepr({"blog", "content", "webinar", "podcast", "speaking"},
                                l.social_media_presence.l) THEN 30 ELSE 0
    IN  Plus(Plus(TrafficPoints(l), Ok(social + content)), RecencyPoints(clock, l))

\* post-funding timing: 30 <= days <= 180
PostFundingPoints(clock, l) ==
    IF Truthy(l.metrics.last_funding_date)
    THEN IF l.metrics.last_funding_date.t # "date" THEN Raised
         ELSE LET days_since_funding == DaysSince(clock, l.metrics.last_funding_date)
              IN  IF 30 <= days_since_funding /\ days_since_funding <= 180
                  THEN Ok(30) ELSE Ok(0)
    ELSE Ok(0)

\* _score_timing_signals
ScoreTimingSignals(clock, l) ==
    LET change == IF Truthy(l.buying_signals.decision_maker_changes) THEN 60 ELSE 0
        expansion == IF Truthy(l.buying_signals.expansion_signals)
                     THEN 10 * Min(4, Len(l.buying_signals.expansion_signals.l) * 2)
                     ELSE 0
        adoption == IF AnyInRepr({"migration", "upgrade", "implementation", "new system"},
                                 l.buying_signals.expansion_signals.l) THEN 20 ELSE 0
    IN  Plus(Ok(change + expansion + adoption), PostFundingPoints(clock, l))

\* str(lead.industry).lower() inside the f-string: "none" for None
IndustryText(l) == IF l.industry.t = "str" THEN Lower(l.industry.s) ELSE "none"

\* _score_buying_signals.  No pain-point keyword holds a space, so it occurs
\* in company_text exactly when it occurs in one of its parts.
ScoreBuyingSignals(l) ==
    LET budget == IF Truthy(l.buying_signals.budget_indicators)
                  THEN 10 * Min(4, Len(l.buying_signals.budget_indicators.l) * 2)
                  ELSE 0
        relevant == CountAnyIn(l.buying_signals.job_postings.l,
                       {"marketing", "growth", "digital", "automation", "operations",
                        "technology"})
        roles == IF relevant > 0 THEN 10 * Min(4, relevant * 2) ELSE 0
        pain_point_keywords ==
            {"inefficient", "manual", "time-consuming", "outdated", "challenge"}
        pain == IF AnyIn(pain_point_keywords, Lower(l.company_name.s))
                   \/ AnyIn(pain_point_keywords, IndustryText(l))
                   \/ AnyInRepr(pain_point_keywords, l.buying_signals.expansion_signals.l)
                THEN 20 ELSE 0
    IN  Ok(budget + roles + pain)

-----------------------------------------------------------------------------
(* Rule matcher *)

\* the nested pydantic models of a Lead
SubModels == {"metrics", "tech_stack", "buying_signals"}

\* _get_field_value: walk the dotted path with hasattr / getattr; a part that
\* is no attribute gives None, and so does any exception (a field that is
\* not a string has no split).  Attributes of leaf values are not modelled.
GetFieldValue(l, field) ==
    IF field.t # "str" THEN NoneV
    ELSE LET parts == Split(field.s)
         IN  IF parts[1] \notin DOMAIN l THEN NoneV
             ELSE IF Len(parts) = 1
                  THEN IF parts[1] \in SubModels THEN Obj(parts[1]) ELSE l[parts[1]]
                  ELSE IF Len(parts) = 2 /\ parts[1] \in SubModels
                          /\ parts[2] \in DOMAIN l[parts[1]]
                       THEN l[parts[1]][parts[2]]
                       ELSE NoneV

\* field_value == value
PyEq(a, b) == IF IsNumber(a) /\ IsNumber(b) THEN a.n = b.n ELSE a = b

\* getattr(self.model.icp, value, []): the attribute name must be a string
IcpAttr(m, value) ==
    IF value.t # "str" THEN Raised
    ELSE IF value.s \in DOMAIN m.icp THEN Ok(m.icp[value.s])
    ELSE Ok(List(<<>>))

Verdict(b) == IF b THEN "match" ELSE "no_match"

\* _rule_matches ending in "return True"
FallThroughTrue == "match"

\* the last line of _rule_matches, "return False": reached by an operator
\* that is none of the seven, by "intersects" on a field that is no list and
\* by "within_days" on a field that is no datetime
FallThrough == "no_match"

\* _rule_matches: "match", "no_match", or "raise" where the Python raises
RuleMatches(m, clock, l, rule) ==
    LET field == rule.condition.field
        operator == rule.condition.operator
        value == rule.condition.value
        field_value == GetFieldValue(l, field)
        target == IcpAttr(m, value)
    IN  IF ~Truthy(field) THEN "no_match"
        ELSE IF field_value.t = "none" THEN "no_match"
        ELSE IF operator = Str("eq") THEN Verdict(PyEq(field_value, value))
        ELSE IF operator = Str("gt")
             THEN IF ~IsNumber(field_value) THEN "no_match"
                  ELSE IF ~IsNumber(value) THEN "raise"
                  ELSE Verdict(field_value.n > value.n)
        ELSE IF operator = Str("lt")
             THEN IF ~IsNumber(field_value) THEN "no_match"
                  ELSE IF ~IsNumber(value) THEN "raise"
                  ELSE Verdict(field_value.n < value.n)
        ELSE IF operator = Str("in")
             THEN IF target.err THEN "raise"
                  ELSE IF target.v.t # "list" THEN "raise"
                  ELSE Verdict(\E i \in DOMAIN target.v.l :
                                   PyEq(field_value, Str(target.v.l[i])))
        ELSE IF operator = Str("contains")
             THEN IF field_value.t # "str" THEN "no_match"
                  ELSE IF value.t # "str" THEN "raise"
                  ELSE Verdict(value.s = ""
                               \/ Lower(value.s) = Lower(field_value.s)
                               \/ Lower(value.s) \in KeywordsIn(Lower(field_value.s)))
        ELSE IF operator = Str("intersects")
             THEN IF field_value.t # "list" THEN FallThrough
                  ELSE IF target.err THEN "raise"
                  ELSE IF target.v.t # "list" THEN "raise"
                  ELSE Verdict(Range(field_value.l) \cap Range(target.v.l) # {})
        ELSE IF operator = Str("within_days")
             THEN IF field_value.t # "date" THEN FallThrough
                  ELSE IF ~IsNumber(value) THEN "raise"
                  ELSE Verdict(DaysSince(clock, field_value) <= value.n)
        ELSE FallThrough

\* applied_rules kept on the engine from the call before
AppliedRulesKept == score.applied_rules

\* the first line of score_lead's accumulator: applied_rules = []
NewAppliedRules == <<>>

\* thousandths of a point -> 1/500000 of a point
Unit == 500 * 1000
ToUnit(milli) == 500 * milli

\* _apply_scoring_rules adding score_impact without rule.weight
RECURSIVE ApplyScoringRulesUnweighted(_, _, _, _, _)
ApplyScoringRulesUnweighted(m, clock, l, applied_rules, k) ==
    IF k = 0 THEN [adj |-> 0, applied |-> applied_rules, err |-> FALSE]
    ELSE LET before == ApplyScoringRulesUnweighted(m, clock, l, applied_rules, k - 1)
             rule == m.global_rules[k]
             verdict == RuleMatches(m, clock, l, rule)
         IN  IF before.err \/ verdict = "raise" THEN [before EXCEPT !.err = TRUE]
             ELSE IF verdict = "match"
                  THEN [adj |-> before.adj + 10 * rule.score_impact * 100,
                        applied |-> Append(before.applied, rule.name),
                        err |-> FALSE]
                  ELSE before

\* _apply_scoring_rules over rules[1..k]: the adjustment (score_impact * weight,
\* in thousandths), the names appended to applied_rules, and whether a rule raised
RECURSIVE ApplyScoringRules(_, _, _, _, _)
ApplyScoringRules(m, clock, l, applied_rules, k) ==
    IF k = 0 THEN [adj |-> 0, applied |-> applied_rules, err |-> FALSE]
    ELSE LET before == ApplyScoringRules(m, clock, l, applied_rules, k - 1)
             rule == m.global_rules[k]
             verdict == RuleMatches(m, clock, l, rule)
         IN  IF before.err \/ verdict = "raise" THEN [before EXCEPT !.err = TRUE]
             ELSE IF verdict = "match"
                  THEN [adj |-> before.adj + 10 * rule.score_impact * rule.weight,
                        applied |-> Append(before.applied, rule.name),
                        err |-> FALSE]
                  ELSE before

\* _calculate_weighted_score with the timing term subtracted
CalculateWeightedScoreMinus(m, category_scores, rule_adjustments) ==
    category_scores.company_fit * m.weights.company_fit
    + category_scores.growth_indicators * m.weights.growth_indicators
    + category_scores.technology_fit * m.weights.technology_fit
    + category_scores.engagement_signals * m.weights.engagement_signals
    - category_scores.timing_signals * m.weights.timing_signals
    + category_scores.buying_signals * m.weights.buying_signals
    + rule_adjustments

\* _calculate_weighted_score, in thousandths of a point
CalculateWeightedScore(m, category_scores, rule_adjustments) ==
    category_scores.company_fit * m.weights.company_fit
    + category_scores.growth_indicators * m.weights.growth_indicators
    + category_scores.technology_fit * m.weights.technology_fit
    + category_scores.engagement_signals * m.weights.engagement_signals
    + category_scores.timing_signals * m.weights.timing_signals
    + category_scores.buying_signals * m.weights.buying_signals
    + rule_adjustments

\* the data-quality branch with quality_factor in place of (1 - quality_factor)
ApplyDataQualityPenaltyInverted(m, l, total_milli) ==
    IF m.apply_data_quality_penalty /\ Truthy(l.data_quality_score)
    THEN LET data_quality_impact == total_milli * l.data_quality_score.n
         IN  [impact |-> data_quality_impact,
              total |-> Max(0, ToUnit(total_milli) - data_quality_impact)]
    ELSE [impact |-> 0, total |-> ToUnit(total_milli)]

\* the data-quality branch of score_lead: [impact, total] in 1/500000 points;
\* total * (1 - q/100) * 0.2 = milli * (100 - q) / 500
ApplyDataQualityPenalty(m, l, total_milli) ==
    IF m.apply_data_quality_penalty /\ Truthy(l.data_quality_score)
    THEN LET data_quality_impact == total_milli * (100 - l.data_quality_score.n)
         IN  [impact |-> data_quality_impact,
              total |-> Max(0, ToUnit(total_milli) - data_quality_impact)]
    ELSE [impact |-> 0, total |-> ToUnit(total_milli)]

\* _determine_qualification
DetermineQualification(m, total) ==
    IF total >= m.thresholds.hot_threshold * Unit THEN "Hot"
    ELSE IF total >= m.thresholds.warm_threshold * Unit THEN "Warm"
    ELSE IF total >= m.thresholds.cold_threshold * Unit THEN "Cold"
    ELSE "Unqualified"

\* _calculate_confidence, in 1/3000: data_quality_score is in percent and
\* completeness_percentage in thirds of a percent (it is k/12 * 100)
CalculateConfidence(l) ==
    IF Truthy(l.data_quality_score) /\ Truthy(l.completeness_percentage)
    THEN 18 * l.data_quality_score.n + 4 * l.completeness_percentage.n
    ELSE IF Truthy(l.data_quality_score) THEN 30 * l.data_quality_score.n
    ELSE IF Truthy(l.completeness_percentage) THEN 10 * l.completeness_percentage.n
    ELSE 1500

\* _suggest_outreach_strategy: the timing, from the score with fixed cut points
SuggestOutreachTiming(total) ==
    IF total >= 80 * Unit THEN "Immediate"
    ELSE IF total >= 60 * Unit THEN "Within 48 hours"
    ELSE IF total >= 40 * Unit THEN "This week"
    ELSE "When additional data available"

\* the value of score_lead before any call, and of a call that raised
NoScore ==
    [st |-> "none", total_score |-> 0, category_scores |-> [c \in Categories |-> 0],
     qualification_status |-> "", confidence |-> 0, data_quality_impact |-> 0,
     applied_rules |-> <<>>, outreach_timing |-> "", pre_total |-> 0,
     rule_adjustments |-> 0, post_total |-> 0]

\* score_lead: the LeadScore returned (st = "returned"), or st = "raised".
\* pre_total, rule_adjustments and post_total are the locals total_score
\* (before the penalty), rule_adjustments and total_score (after the penalty,
\* before the final clamp); they are not fields of LeadScore.
ScoreLead(m, clock, l) ==
    LET company == ScoreCompanyFit(m, l)
        growth == ScoreGrowthIndicators(clock, l)
        technology == ScoreTechnologyFit(l)
        engagement == ScoreEngagementSignals(clock, l)
        timing == ScoreTimingSignals(clock, l)
        buying == ScoreBuyingSignals(l)
        category_scores ==
            [company_fit |-> company.v, growth_indicators |-> growth.v,
             technology_fit |-> technology.v, engagement_signals |-> engagement.v,
             timing_signals |-> timing.v, buying_signals |-> buying.v]
        rules == ApplyScoringRules(m, clock, l, NewAppliedRules, Len(m.global_rules))
        pre == CalculateWeightedScore(m, category_scores, rules.adj)
        penalty == ApplyDataQualityPenalty(m, l, pre)
    IN  IF company.err \/ growth.err \/ technology.err \/ engagement.err
           \/ timing.err \/ buying.err \/ rules.err
        THEN [NoScore EXCEPT !.st = "raised"]
        ELSE [st |-> "returned",
              total_score |-> Min(100 * Unit, Max(0, penalty.total)),
              category_scores |-> category_scores,
              qualification_status |-> DetermineQualification(m, penalty.total),
              confidence |-> CalculateConfidence(l),
              data_quality_impact |-> penalty.impact,
              applied_rules |-> rules.applied,
              outreach_timing |-> SuggestOutreachTiming(penalty.total),
              pre_total |-> pre,
              rule_adjustments |-> rules.adj,
              post_total |-> penalty.total]

-----------------------------------------------------------------------------
(* BuyerIntentAnalyzer and LeadQualificationEngine: backend/services/qualifier.py *)

\* one iteration of the loop of _analyze_job_posting_intent
JobPostingIntent(posting) ==
    LET posting_lower == Lower(posting)
        tier == IF AnyIn({"vp marketing", "marketing director", "growth lead",
                          "head of growth"}, posting_lower) THEN 5
                ELSE IF AnyIn({"marketing manager", "digital marketing",
                               "marketing analyst"}, posting_lower) THEN 3
                ELSE 0
        decision_maker == IF AnyIn({"cmo", "ceo", "vp", "director", "head of"},
                                   posting_lower) THEN 2 ELSE 0
        tech == IF AnyIn({"automation", "analytics", "crm", "marketing ops", "martech"},
                         posting_lower) THEN 4 ELSE 0
    IN  tier + decision_maker + tech

\* sum of f over the elements 1..k of a list, f given as a function
RECURSIVE SumOver(_, _)
SumOver(points, k) == IF k = 0 THEN 0 ELSE SumOver(points, k - 1) + points[k]

\* _analyze_job_posting_intent: the score, capped at 10
AnalyzeJobPostingIntent(job_postings) ==
    Min(SumOver([i \in DOMAIN job_postings |-> JobPostingIntent(job_postings[i])],
                Len(job_postings)), 10)

\* _analyze_technology_intent without min(score, 8)
AnalyzeTechnologyIntentUncapped(l) ==
    LET all_tech == l.tech_stack.technologies.l \o l.tech_stack.marketing_tools.l
                    \o l.tech_stack.sales_tools.l
        competitors == CountLowerIn(all_tech,
                          {"hubspot", "salesforce", "marketo", "pardot", "mailchimp"})
        outdated == CountAnyIn(all_tech,
                       {"legacy", "on-premise", "excel", "manual", "spreadsheet"})
        gaps == IF Len(all_tech) < 3 THEN 2 ELSE 0
    IN  3 * competitors + 2 * outdated + gaps

\* _analyze_technology_intent: the score, capped at 8
AnalyzeTechnologyIntent(l) ==
    LET all_tech == l.tech_stack.technologies.l \o l.tech_stack.marketing_tools.l
                    \o l.tech_stack.sales_tools.l
        competitors == CountLowerIn(all_tech,
                          {"hubspot", "salesforce", "marketo", "pardot", "mailchimp"})
        outdated == CountAnyIn(all_tech,
                       {"legacy", "on-premise", "excel", "manual", "spreadsheet"})
        gaps == IF Len(all_tech) < 3 THEN 2 ELSE 0
    IN  Min(3 * competitors + 2 * outdated + gaps, 8)

\* "x and x >= k" on an optional number: comparing a truthy non-number raises
AtLeast(x, k) ==
    IF ~Truthy(x) THEN Ok(0)
    ELSE IF ~IsNumber(x) THEN Raised
    ELSE Ok(IF x.n >= k THEN 1 ELSE 0)

\* _analyze_growth_intent: the score, capped at 6
AnalyzeGrowthIntent(l) ==
    LET hiring == AtLeast(l.buying_signals.recent_hiring, 5)
        expansion == 2 * CountAnyIn(l.buying_signals.expansion_signals.l,
                            {"expansion", "new market", "scaling", "growth",
                             "international"})
        growth == AtLeast(l.metrics.growth_rate, 25)
    IN  [v |-> Min(3 * hiring.v + expansion + 2 * growth.v, 6),
         err |-> hiring.err \/ growth.err]

\* the funding-recency part of _analyze_funding_intent, guarded by
\* "if lead.metrics.last_funding_date:"
FundingRecencyIntent(clock, l) ==
    IF Truthy(l.metrics.last_funding_date)
    THEN IF l.metrics.last_funding_date.t # "date" THEN Raised
         ELSE LET days_since_funding == DaysSince(clock, l.metrics.last_funding_date)
              IN  IF days_since_funding <= 90 THEN Ok(4)
                  ELSE IF days_since_funding <= 180 THEN Ok(2)
                  ELSE Ok(0)
    ELSE Ok(0)

\* _analyze_funding_intent: the score, capped at 5
AnalyzeFundingIntent(clock, l) ==
    LET recency == FundingRecencyIntent(clock, l)
        amount == AtLeast(l.metrics.funding_amount, 10000000)
    IN  [v |-> Min(recency.v + 2 * amount.v, 5), err |-> recency.err \/ amount.err]

\* the thresholds of analyze_intent
IntentLevel(intent_score) ==
    IF intent_score >= 15 THEN "High"
    ELSE IF intent_score >= 8 THEN "Medium"
    ELSE IF intent_score >= 3 THEN "Low"
    ELSE "Minimal"

\* analyze_intent: intent_score and intent_level
AnalyzeIntent(clock, l) ==
    LET job == IF Truthy(l.buying_signals.job_postings)
               THEN AnalyzeJobPostingIntent(l.buying_signals.job_postings.l) ELSE 0
        growth == AnalyzeGrowthIntent(l)
        funding == AnalyzeFundingIntent(clock, l)
        intent_score == job + AnalyzeTechnologyIntent(l) + growth.v + funding.v
    IN  [intent_score |-> intent_score, intent_level |-> IntentLevel(intent_score),
         err |-> growth.err \/ funding.err]

\* the funding window with "30 < days_since" for the sweet spot
FundingWindowStrict(clock, l) ==
    IF Truthy(l.metrics.last_funding_date)
    THEN IF l.metrics.last_funding_date.t # "date" THEN Raised
         ELSE LET days_since == DaysSince(clock, l.metrics.last_funding_date)
              IN  IF 30 < days_since /\ days_since <= 120 THEN Ok(8)
                  ELSE IF 120 <= days_since /\ days_since <= 180 THEN Ok(5)
                  ELSE IF days_since <= 30 THEN Ok(3)
                  ELSE Ok(0)
    ELSE Ok(0)

\* the funding window of _calculate_timing_score, guarded by
\* "if lead.metrics.last_funding_date:"
FundingWindow(clock, l) ==
    IF Truthy(l.metrics.last_funding_date)
    THEN IF l.metrics.last_funding_date.t # "date" THEN Raised
         ELSE LET days_since == DaysSince(clock, l.metrics.last_funding_date)
              IN  IF 30 <= days_since /\ days_since <= 120 THEN Ok(8)
                  ELSE IF 120 <= days_since /\ days_since <= 180 THEN Ok(5)
                  ELSE IF days_since <= 30 THEN Ok(3)
                  ELSE Ok(0)
    ELSE Ok(0)

\* the hiring tiers of _calculate_timing_score, guarded by
\* "if lead.buying_signals.recent_hiring:"
HiringWindow(l) ==
    IF Truthy(l.buying_signals.recent_hiring)
    THEN IF ~IsNumber(l.buying_signals.recent_hiring) THEN Raised
         ELSE IF l.buying_signals.recent_hiring.n >= 5 THEN Ok(6)
         ELSE IF l.buying_signals.recent_hiring.n >= 2 THEN Ok(3)
         ELSE Ok(0)
    ELSE Ok(0)

\* _calculate_timing_score
CalculateTimingScore(clock, l) ==
    LET funding == FundingWindow(clock, l)
        hiring == HiringWindow(l)
        change == IF Truthy(l.buying_signals.decision_maker_changes) THEN 5 ELSE 0
        quarter == IF clock.month \in {1, 4, 7, 10} THEN 2 ELSE 0
    IN  [v |-> Min(funding.v + hiring.v + change + quarter, 20),
         err |-> funding.err \/ hiring.err]

\* _determine_final_qualification with the data-quality downgrade applied to
\* the tier the upgrades give
DetermineFinalQualificationThenDowngrade(base_qualification, intent_level, timing_score, data_quality_score) ==
    LET upgraded ==
            IF intent_level = "High" /\ base_qualification = "Warm" THEN "Hot"
            ELSE IF intent_level = "High" /\ base_qualification = "Cold" THEN "Warm"
            ELSE IF intent_level = "Medium" /\ base_qualification = "Cold" THEN "Warm"
            ELSE IF timing_score >= 15 /\ base_qualification = "Warm" THEN "Hot"
            ELSE base_qualification
    IN  IF Truthy(data_quality_score) /\ data_quality_score.n < 40
        THEN IF upgraded = "Hot" THEN "Warm"
             ELSE IF upgraded = "Warm" THEN "Cold"
             ELSE upgraded
        ELSE upgraded

\* _determine_final_qualification with "timing_score > 15"
DetermineFinalQualificationStrictTiming(base_qualification, intent_level, timing_score, data_quality_score) ==
    IF intent_level = "High" /\ base_qualification = "Warm" THEN "Hot"
    ELSE IF intent_level = "High" /\ base_qualification = "Cold" THEN "Warm"
    ELSE IF intent_level = "Medium" /\ base_qualification = "Cold" THEN "Warm"
    ELSE IF timing_score > 15 /\ base_qualification = "Warm" THEN "Hot"
    ELSE IF Truthy(data_quality_score) /\ data_quality_score.n < 40
         THEN IF base_qualification = "Hot" THEN "Warm"
              ELSE IF base_qualification = "Warm" THEN "Cold"
              ELSE base_qualification
    ELSE base_qualification

\* _determine_final_qualification with high intent lifting a Cold lead to Hot
DetermineFinalQualificationLeap(base_qualification, intent_level, timing_score, data_quality_score) ==
    IF intent_level = "High" /\ base_qualification = "Warm" THEN "Hot"
    ELSE IF intent_level = "High" /\ base_qualification = "Cold" THEN "Hot"
    ELSE IF intent_level = "Medium" /\ base_qualification = "Cold" THEN "Warm"
    ELSE IF timing_score >= 15 /\ base_qualification = "Warm" THEN "Hot"
    ELSE IF Truthy(data_quality_score) /\ data_quality_score.n < 40
         THEN IF base_qualification = "Hot" THEN "Warm"
              ELSE IF base_qualification = "Warm" THEN "Cold"
              ELSE base_qualification
    ELSE base_qualification

\* _determine_final_qualification: each upgrade returns at once
DetermineFinalQualification(base_qualification, intent_level, timing_score, data_quality_score) ==
    IF intent_level = "High" /\ base_qualification = "Warm" THEN "Hot"
    ELSE IF intent_level = "High" /\ base_qualification = "Cold" THEN "Warm"
    ELSE IF intent_level = "Medium" /\ base_qualification = "Cold" THEN "Warm"
    ELSE IF timing_score >= 15 /\ base_qualification = "Warm" THEN "Hot"
    ELSE IF Truthy(data_quality_score) /\ data_quality_score.n < 40
         THEN IF base_qualification = "Hot" THEN "Warm"
              ELSE IF base_qualification = "Warm" THEN "Cold"
              ELSE base_qualification
    ELSE base_qualification

\* _calculate_priority_score, in 1/(5 * Unit) of a point:
\* 100 * (0.4 * lead_score/100 + 0.3 * min(intent/20, 1) + 0.2 * dq/100
\*        + 0.1 * timing/20)
CalculatePriorityScore(lead_score, intent_score, timing_score, data_quality) ==
    2 * lead_score + ((15 * Unit) \div 2) * Min(intent_score, 20)
    + Unit * data_quality + ((5 * Unit) \div 2) * timing_score

\* the value of qualify_lead before any call, and of a call that raised
NoQual ==
    [st |-> "none", lead_score |-> NoScore, intent_score |-> 0, intent_level |-> "",
     timing_score |-> 0, final_qualification |-> "", priority_score |-> 0]

\* qualify_lead; self.scorer is LeadScoringEngine(), the default engine
QualifyLead(clock, l) ==
    LET lead_score == ScoreLead(EngineInit([given |-> FALSE]), clock, l)
        intent_analysis == AnalyzeIntent(clock, l)
        timing_score == CalculateTimingScore(clock, l)
    IN  IF lead_score.st = "raised" \/ intent_analysis.err \/ timing_score.err
        THEN [NoQual EXCEPT !.st = "raised"]
        ELSE [st |-> "returned",
              lead_score |-> lead_score,
              intent_score |-> intent_analysis.intent_score,
              intent_level |-> intent_analysis.intent_level,
              timing_score |-> timing_score.v,
              final_qualification |->
                  DetermineFinalQualification(lead_score.qualification_status,
                      intent_analysis.intent_level, timing_score.v,
                      l.data_quality_score),
              priority_score |->
                  CalculatePriorityScore(lead_score.total_score,
                      intent_analysis.intent_score, timing_score.v,
                      IF Truthy(l.data_quality_score) THEN l.data_quality_score.n
                      ELSE 50)]

-----------------------------------------------------------------------------
(* Leads: backend/models/lead.py *)

\* CompanyMetrics(), TechnologyStack(), BuyingSignals(): the defaults
EmptyMetrics ==
    [employee_count |-> NoneV, revenue_range |-> NoneV, growth_rate |-> NoneV,
     funding_amount |-> NoneV, last_funding_date |-> NoneV]

EmptyTechStack ==
    [technologies |-> List(<<>>), marketing_tools |-> List(<<>>),
     sales_tools |-> List(<<>>), analytics_tools |-> List(<<>>)]

EmptyBuyingSignals ==
    [job_postings |-> List(<<>>), recent_hiring |-> NoneV,
     budget_indicators |-> List(<<>>), decision_maker_changes |-> Bool(FALSE),
     expansion_signals |-> List(<<>>)]

\* Lead(company_name = ..., domain = ...): every optional field omitted.
\* contacts holds the contacts' e-mail addresses.
NewLeadRecord(company_name, domain) ==
    [id |-> NoneV, company_name |-> Str(company_name), domain |-> Str(domain),
     industry |-> NoneV, contacts |-> List(<<>>),
     metrics |-> EmptyMetrics, tech_stack |-> EmptyTechStack,
     buying_signals |-> EmptyBuyingSignals,
     data_quality_score |-> NoneV, completeness_percentage |-> NoneV,
     last_enriched |-> NoneV, data_sources |-> List(<<>>),
     headquarters |-> NoneV, website_traffic_rank |-> NoneV,
     social_media_presence |-> Dict(<<>>)]

-----------------------------------------------------------------------------
(* DataEnrichmentService: backend/services/enrichment.py *)

\* domain.split('.')[0].title() of the mock responses
CompanyTitle(domain) ==
    CASE domain = "example-tech.com" -> "Example-Tech"
      [] domain = "acme.io" -> "Acme"
      [] OTHER -> domain

\* domain.split('.')[0].title().lower()
CompanySlug(domain) ==
    CASE domain = "example-tech.com" -> "example-tech"
      [] domain = "acme.io" -> "acme"
      [] OTHER -> domain

\* dict.update with one key
DictPut(d, k, v) ==
    IF \E i \in DOMAIN d : i % 2 = 1 /\ d[i] = k
    THEN [i \in DOMAIN d |-> IF i % 2 = 0 /\ d[i - 1] = k THEN v ELSE d[i]]
    ELSE d \o <<k, v>>

\* _merge_enrichment_data for the source "clearbit_mock" (_mock_clearbit_response)
MergeClearbit(l) ==
    LET slug == CompanySlug(l.domain.s)
        named == IF ~Truthy(l.company_name)
                 THEN [l EXCEPT !.company_name = Str(CompanyTitle(l.domain.s) \o " Inc.")] ELSE l
        classified == IF ~Truthy(named.industry)
                      THEN [named EXCEPT !.industry = Str("Technology")] ELSE named
        sized == IF ~Truthy(classified.metrics.employee_count)
                 THEN [classified EXCEPT !.metrics.employee_count = Num(150)]
                 ELSE classified
        located == IF ~Truthy(sized.headquarters)
                   THEN [sized EXCEPT !.headquarters = Str("San Francisco, CA")]
                   ELSE sized
    IN  [located EXCEPT
            !.tech_stack.technologies =
                List(@.l \o <<"Python", "React", "AWS", "PostgreSQL">>),
            !.social_media_presence =
                Dict(DictPut(DictPut(@.l, "linkedin",
                                     "https://linkedin.com/company/" \o slug),
                             "twitter", "https://twitter.com/" \o slug)),
            !.data_sources =
                IF "clearbit_mock" \in Range(@.l) THEN @
                ELSE List(@.l \o <<"clearbit_mock">>)]

\* the contacts loop without its duplicate test
AddContactsUnchecked(contacts, emails) == contacts \o emails

\* the contacts loop of _merge_enrichment_data: append unless the e-mail is there
RECURSIVE AddContacts(_, _)
AddContacts(contacts, emails) ==
    IF emails = <<>> THEN contacts
    ELSE AddContacts(IF Head(emails) \in Range(contacts) THEN contacts
                     ELSE Append(contacts, Head(emails)),
                     Tail(emails))

\* _merge_enrichment_data for the source "hunter_mock" (_mock_hunter_response)
MergeHunter(l) ==
    [l EXCEPT
        !.contacts = List(AddContacts(@.l,
                        <<"contact@" \o l.domain.s, "john.doe@" \o l.domain.s,
                          "jane.smith@" \o l.domain.s>>)),
        !.data_sources =
            IF "hunter_mock" \in Range(@.l) THEN @ ELSE List(@.l \o <<"hunter_mock">>)]

\* _calculate_data_quality_score: points of 100, as a percentage.  Every
\* contact address of the vocabulary is a valid e-mail address.
CalculateDataQualityScore(l) ==
    (IF Truthy(l.company_name) THEN 20 ELSE 0)
    + (IF Truthy(l.domain) THEN 20 ELSE 0)
    + (IF Truthy(l.industry) THEN 10 ELSE 0)
    + (IF Truthy(l.metrics.employee_count) /\ l.metrics.employee_count.n > 0
       THEN 10 ELSE 0)
    + (IF Len(l.contacts.l) > 0 THEN Min(15, Len(l.contacts.l) * 5) ELSE 0)
    + (IF Truthy(l.tech_stack.technologies) THEN 10 ELSE 0)
    + (IF Truthy(l.headquarters) THEN 5 ELSE 0)
    + (IF Truthy(l.social_media_presence)
       THEN Min(10, DictLen(l.social_media_presence) * 3) ELSE 0)

\* _calculate_completeness_percentage: completed_fields / 12 * 100, in thirds
\* of a percent
CalculateCompletenessPercentage(l) ==
    LET Done(f) == IF Truthy(f) THEN 1 ELSE 0
    IN  25 * (Done(l.company_name) + Done(l.domain) + Done(l.industry)
              + Done(l.metrics.employee_count) + Done(l.contacts)
              + Done(l.tech_stack.technologies) + Done(l.headquarters)
              + Done(l.social_media_presence) + Done(l.metrics.revenue_range)
              + Done(l.metrics.funding_amount) + Done(l.buying_signals.job_postings)
              + Done(l.buying_signals.recent_hiring))

\* enrich_lead: merge the results that succeeded, then set the quality
\* scores and last_enriched on the lead
EnrichLead(clock, l, clearbit_ok, hunter_ok) ==
    LET c == IF clearbit_ok THEN MergeClearbit(l) ELSE l
        h == IF hunter_ok THEN MergeHunter(c) ELSE c
    IN  IF ~Truthy(l.domain)
        THEN [l EXCEPT !.data_quality_score = Num(CalculateDataQualityScore(l)),
                       !.completeness_percentage =
                           Num(CalculateCompletenessPercentage(l)),
                       !.last_enriched = Date(clock.day)]
        ELSE [h EXCEPT !.data_quality_score = Num(CalculateDataQualityScore(h)),
                       !.completeness_percentage =
                           Num(CalculateCompletenessPercentage(h)),
                       !.last_enriched = Date(clock.day)]

-----------------------------------------------------------------------------
(* The leads and configurations explored *)

\* datetime.now() at construction and after each tick: day number and month
Clocks ==
    << [day |-> 1000, month |-> 10], [day |-> 1045, month |-> 11],
       [day |-> 1130, month |-> 2] >>

\* the sample lead of test_system.py
SmokeLead ==
    [NewLeadRecord("Example Tech Corp", "example-tech.com") EXCEPT
        !.industry = Str("Technology"),
        !.headquarters = Str("San Francisco, CA"),
        !.metrics.employee_count = Num(150),
        !.metrics.funding_amount = Num(25000000),
        !.metrics.growth_rate = Num(35),
        !.tech_stack.technologies = List(<<"Python", "React", "AWS", "PostgreSQL">>),
        !.tech_stack.marketing_tools = List(<<"HubSpot", "Google Analytics">>),
        !.tech_stack.sales_tools = List(<<"Salesforce">>),
        !.contacts = List(<<"jane@example-tech.com">>)]

\* a lead with nothing but the required fields
MinimalLead == NewLeadRecord("Acme Tools", "acme.io")

\* a lead with every optional field present
FullLead ==
    [NewLeadRecord("Acme Tools", "acme.io") EXCEPT
        !.industry = Str("SaaS"),
        !.headquarters = Str("Toronto, Canada"),
        !.website_traffic_rank = Num(250000),
        !.data_quality_score = Num(80),
        !.completeness_percentage = Num(225),
        !.last_enriched = Date(990),
        !.social_media_presence = Dict(<<"blog", "https://acme.io/blog">>),
        !.contacts = List(<<"contact@acme.io">>),
        !.data_sources = List(<<"clearbit_mock">>),
        !.metrics.employee_count = Num(40),
        !.metrics.revenue_range = Enum("1M-10M"),
        !.metrics.growth_rate = Num(30),
        !.metrics.funding_amount = Num(12000000),
        !.metrics.last_funding_date = Date(940),
        !.tech_stack.technologies = List(<<"Docker", "Legacy CRM">>),
        !.tech_stack.marketing_tools = List(<<"HubSpot">>),
        !.tech_stack.sales_tools = List(<<"Salesforce">>),
        !.tech_stack.analytics_tools = List(<<"Google Analytics">>),
        !.buying_signals.job_postings =
            List(<<"VP Marketing", "Marketing Automation Lead">>),
        !.buying_signals.recent_hiring = Num(6),
        !.buying_signals.budget_indicators = List(<<"Budget approved">>),
        !.buying_signals.decision_maker_changes = Bool(TRUE),
        !.buying_signals.expansion_signals =
            List(<<"International expansion", "CRM migration">>)]

\* a small company outside the target profile
LegacyLead ==
    [NewLeadRecord("Acme Tools", "acme.io") EXCEPT
        !.industry = Str("Manual Logistics"),
        !.headquarters = Str("Sydney, Australia"),
        !.metrics.employee_count = Num(10),
        !.tech_stack.technologies = List(<<"Legacy CRM">>),
        !.buying_signals.job_postings = List(<<"Marketing Manager">>)]

BaseLeads == {SmokeLead, MinimalLead, FullLead, LegacyLead}

\* data_quality_score as the caller supplies it: absent, or a percentage
QualityValues == {NoneV, Num(0), Num(30), Num(50), Num(100)}

SampleLeads ==
    BaseLeads \cup {[b EXCEPT !.data_quality_score = q] :
                      b \in BaseLeads, q \in QualityValues}

\* caller-supplied scoring models
TargetICP ==
    [DefaultICP EXCEPT
        !.target_industries = List(<<"technology", "software">>),
        !.company_size_min = Num(50),
        !.company_size_max = Num(500),
        !.target_technologies = List(<<"Python", "Docker">>)]

TargetRules ==
    << Rule("SaaS Industry", "company_fit",
            Str("industry"), Str("eq"), Str("SaaS"), 30, 100),
       Rule("Large Team", "company_fit",
            Str("metrics.employee_count"), Str("gt"), Num(100), 40, 50),
       Rule("Target Technology", "technology_fit",
            Str("tech_stack.technologies"), Str("intersects"),
            Str("target_technologies"), 12, 100),
       Rule("Recent Funding", "growth_indicators",
            Str("metrics.last_funding_date"), Str("within_days"), Num(180), 15, 100),
       Rule("Target Industry", "company_fit",
            Str("industry"), Str("in"), Str("target_industries"), 20, 100),
       Rule("Manual Industry", "company_fit",
            Str("industry"), Str("contains"), Str("manual"), -60, 100) >>

TargetModel ==
    [DefaultScoringModel EXCEPT !.icp = TargetICP, !.global_rules = TargetRules]

\* every lead is at least Cold
ZeroColdModel ==
    [TargetModel EXCEPT !.thresholds.cold_threshold = 0]

\* company fit alone, low cut points, no quality penalty
LowBarModel ==
    [DefaultScoringModel EXCEPT
        !.weights = [company_fit |-> 100, growth_indicators |-> 0,
                     technology_fit |-> 0, engagement_signals |-> 0,
                     timing_signals |-> 0, buying_signals |-> 0],
        !.thresholds = [hot_threshold |-> 20, warm_threshold |-> 10,
                        cold_threshold |-> 5, min_data_quality |-> 50],
        !.apply_data_quality_penalty = FALSE,
        !.global_rules =
            << Rule("Large Team", "company_fit",
                    Str("metrics.employee_count"), Str("gt"), Num(100), 100, 100),
               Rule("Technology Industry", "company_fit",
                    Str("industry"), Str("contains"), Str("Technology"), 10, 100) >>]

\* rules whose field does not resolve or whose operator is unknown
BrokenRulesModel ==
    [DefaultScoringModel EXCEPT
        !.global_rules =
            << Rule("No Field", "company_fit", NoneV, Str("eq"), NoneV, 50, 100),
               Rule("Bad Path", "company_fit",
                    Str("metrics.missing"), Str("eq"), Num(1), 50, 100),
               Rule("Leaf Path", "company_fit",
                    Str("industry.name"), Str("eq"), Str("Technology"), 50, 100),
               Rule("Unknown Operator", "company_fit",
                    Str("industry"), Str("matches"), Str("Technology"), 50, 100),
               Rule("No Operator", "company_fit",
                    Str("company_name"), NoneV, Str("Acme Tools"), 50, 100),
               Rule("Technology Industry", "company_fit",
                    Str("industry"), Str("eq"), Str("Technology"), 7, 100) >>]

\* a rule whose value has the wrong type for its operator
MistypedModel ==
    [DefaultScoringModel EXCEPT
        !.global_rules =
            << Rule("No Value", "company_fit",
                    Str("metrics.employee_count"), Str("gt"), NoneV, 10, 100) >>]

\* the arguments of LeadScoringEngine(...)
ScoringModels ==
    {[given |-> FALSE, model |-> DefaultScoringModel]}
    \cup {[given |-> TRUE, model |-> m] :
            m \in {DefaultScoringModel, TargetModel, ZeroColdModel, LowBarModel,
                   BrokenRulesModel, MistypedModel}}

-----------------------------------------------------------------------------
(* The engine as a state machine *)

\* enrich_lead extends tech_stack.technologies on every call; calls stop here
MaxTechnologies == 8

NoPrev == [st |-> "none", lead |-> MinimalLead, now |-> Clocks[1], score |-> NoScore]
NoArgs == <<>>
NoRet == <<>>

Init ==
    /\ \E sm \in ScoringModels : model = EngineInit(sm)
    /\ lead \in SampleLeads
    /\ now = Clocks[1]
    /\ op = "init"
    /\ score = NoScore
    /\ qual = NoQual
    /\ prev = NoPrev
    /\ leads_db = <<>>
    /\ leads_storage = <<>>
    /\ tasks = <<>>
    /\ semaphore = 0
    /\ args = NoArgs
    /\ ret = NoRet

\* the caller takes up another lead
NewLead ==
    /\ lead' \in SampleLeads
    /\ op' = "new"
    /\ score' = NoScore
    /\ qual' = NoQual
    /\ UNCHANGED <<model, now, prev, args, ret, leads_db, leads_storage, tasks, semaphore>>

\* DataEnrichmentService.enrich_lead(lead): each source answers or fails
Enrich ==
    /\ Len(lead.tech_stack.technologies.l) < MaxTechnologies
    /\ \E clearbit_ok, hunter_ok \in BOOLEAN :
           lead' = EnrichLead(now, lead, clearbit_ok, hunter_ok)
    /\ op' = "enrich"
    /\ score' = NoScore
    /\ qual' = NoQual
    /\ UNCHANGED <<model, now, prev, args, ret, leads_db, leads_storage, tasks, semaphore>>

\* LeadScoringEngine.score_lead(lead)
Score ==
    /\ score' = ScoreLead(model, now, lead)
    /\ op' = "score"
    /\ qual' = NoQual
    /\ UNCHANGED <<model, lead, now, prev, args, ret, leads_db, leads_storage, tasks, semaphore>>

\* LeadQualificationEngine.qualify_lead(lead)
Qualify ==
    /\ qual' = QualifyLead(now, lead)
    /\ op' = "qualify"
    /\ score' = NoScore
    /\ UNCHANGED <<model, lead, now, prev, args, ret, leads_db, leads_storage, tasks, semaphore>>

\* time passes
Tick ==
    /\ \E i \in 1..(Len(Clocks) - 1) : now = Clocks[i] /\ now' = Clocks[i + 1]
    /\ op' = "tick"
    /\ score' = NoScore
    /\ qual' = NoQual
    /\ UNCHANGED <<model, lead, prev, args, ret, leads_db, leads_storage, tasks, semaphore>>

Next == NewLead \/ Enrich \/ Score \/ Qualify \/ Tick

Spec == Init /\ [][Next]_vars

-----------------------------------------------------------------------------
(* Properties of score_lead *)

\* score_lead was the last operation and returned a LeadScore for lead
Scored == op = "score" /\ score.st = "returned"

\* the tier the thresholds give a score, highest first, inclusive lower bounds
TierOf(thresholds, total) ==
    IF total >= thresholds.hot_threshold * Unit THEN "Hot"
    ELSE IF total >= thresholds.warm_threshold * Unit THEN "Warm"
    ELSE IF total >= thresholds.cold_threshold * Unit THEN "Cold"
    ELSE "Unqualified"

\* C3: the qualification_status of the LeadScore returned is the tier of the
\* total_score returned: Hot from hot_threshold, Warm from warm_threshold,
\* Cold from cold_threshold, else Unqualified.
C3_QualificationConsistency ==
    Scored => score.qualification_status = TierOf(model.thresholds, score.total_score)

\* the default engine scoring the sample lead of the smoke test after enrichment
SmokeScored ==
    /\ Scored
    /\ model = EngineInit([given |-> FALSE])
    /\ \E c \in Range(Clocks), clearbit_ok, hunter_ok \in BOOLEAN :
           lead = EnrichLead(c, SmokeLead, clearbit_ok, hunter_ok)

\* C4: with the default configuration the smoke-test lead scores 60..90, with
\* Technology Fit and Growth Indicators both above zero.
C4_SmokeScenario ==
    SmokeScored =>
        /\ 60 * Unit <= score.total_score
        /\ score.total_score <= 90 * Unit
        /\ score.category_scores.technology_fit > 0
        /\ score.category_scores.growth_indicators > 0

\* C5 as stated: the penalty is at most 20% of the pre-penalty score, and a
\* data_quality_score of 100 gives no penalty.
C5_PenaltyAtMostFifth ==
    Scored =>
        /\ 5 * score.data_quality_impact <= ToUnit(score.pre_total)
        /\ (lead.data_quality_score = Num(100) => score.data_quality_impact = 0)

\* C5 amended: the penalty lies between zero and 20% of the pre-penalty score,
\* on the side of zero the pre-penalty score is on (a negative pre-penalty
\* score gives a penalty <= 0 of at most 20% of its magnitude), and a
\* data_quality_score of 100 gives no penalty.
C5_PenaltyBound ==
    Scored =>
        LET pre == ToUnit(score.pre_total)
            impact == score.data_quality_impact
        IN  /\ pre >= 0 => 0 <= impact /\ 5 * impact <= pre
            /\ pre < 0 => pre <= 5 * impact /\ impact <= 0
            /\ (lead.data_quality_score = Num(100) => impact = 0)

\* a penalty was subtracted from a positive score
C5_Witness ==
    Scored /\ score.pre_total > 0 /\ score.data_quality_impact > 0

\* C6: with the penalty enabled and data_quality_score present (0 included),
\* penalty = pre_total * (1 - q/100) * 0.2 and the score after it is
\* max(0, pre_total - penalty).
C6_PenaltyFormula ==
    (Scored /\ model.apply_data_quality_penalty /\ lead.data_quality_score.t # "none")
    => /\ score.data_quality_impact
            = score.pre_total * (100 - lead.data_quality_score.n)
       /\ score.post_total
            = Max(0, ToUnit(score.pre_total) - score.data_quality_impact)

\* the dotted paths that name an attribute of a Lead (backend/models/lead.py)
LeadFieldPaths ==
    {"id", "company_name", "domain", "industry", "contacts", "metrics", "tech_stack",
     "buying_signals", "data_quality_score", "completeness_percentage",
     "last_enriched", "data_sources", "headquarters", "website_traffic_rank",
     "social_media_presence",
     "metrics.employee_count", "metrics.revenue_range", "metrics.growth_rate",
     "metrics.funding_amount", "metrics.last_funding_date",
     "tech_stack.technologies", "tech_stack.marketing_tools",
     "tech_stack.sales_tools", "tech_stack.analytics_tools",
     "buying_signals.job_postings", "buying_signals.recent_hiring",
     "buying_signals.budget_indicators", "buying_signals.decision_maker_changes",
     "buying_signals.expansion_signals"}

SupportedOperators ==
    {Str("eq"), Str("gt"), Str("lt"), Str("in"), Str("contains"),
     Str("intersects"), Str("within_days")}

\* a rule whose field path does not resolve or whose operator is unknown
Unmatchable(rule) ==
    \/ rule.condition.field.t # "str"
    \/ rule.condition.field.s \notin LeadFieldPaths
    \/ rule.condition.operator \notin SupportedOperators

\* sum of f[x] over a finite set
RECURSIVE SetSum(_, _)
SetSum(f, S) ==
    IF S = {} THEN 0
    ELSE LET x == CHOOSE y \in S : TRUE IN f[x] + SetSum(f, S \ {x})

\* the rules of the engine that match the lead now, and what they add
MatchedRules ==
    {i \in DOMAIN model.global_rules :
        RuleMatches(model, now, lead, model.global_rules[i]) = "match"}

MatchedAdjustment ==
    SetSum([i \in DOMAIN model.global_rules |->
                10 * model.global_rules[i].score_impact * model.global_rules[i].weight],
           MatchedRules)

\* C7: a rule whose field path cannot be resolved or whose operator is not
\* supported does not match and does not raise; score_lead raises only for
\* another rule, leaves its name out of applied_rules and adds nothing for it.
C7_RuleTotality ==
    /\ \A i \in DOMAIN model.global_rules :
           Unmatchable(model.global_rules[i]) =>
               /\ RuleMatches(model, now, lead, model.global_rules[i]) = "no_match"
               /\ Scored => model.global_rules[i].name \notin Range(score.applied_rules)
    /\ Scored =>
           score.rule_adjustments
               = SetSum([i \in DOMAIN model.global_rules |->
                            10 * model.global_rules[i].score_impact
                               * model.global_rules[i].weight],
                        {i \in MatchedRules : ~Unmatchable(model.global_rules[i])})
    /\ (op = "score" /\ score.st = "raised") =>
           \E i \in DOMAIN model.global_rules :
               /\ ~Unmatchable(model.global_rules[i])
               /\ RuleMatches(model, now, lead, model.global_rules[i]) = "raise"

\* a lead scored under rules of which some are unmatchable and one matched
C7_Witness ==
    /\ Scored
    /\ score.applied_rules # <<>>
    /\ \E i \in DOMAIN model.global_rules :
           /\ Unmatchable(model.global_rules[i])
           /\ model.global_rules[i].condition.operator \notin SupportedOperators
           /\ GetFieldValue(lead, model.global_rules[i].condition.field).t # "none"
    /\ \E i \in DOMAIN model.global_rules :
           model.global_rules[i].condition.field.s \notin LeadFieldPaths

\* C10: the pre-penalty total is the sum of category score * weight over the
\* six categories plus score_impact * weight over exactly the matching rules,
\* and applied_rules names exactly those rules, in rule order.
C10_Aggregation ==
    Scored =>
        LET matching == SelectSeq(model.global_rules,
                            LAMBDA r : RuleMatches(model, now, lead, r) = "match")
        IN  /\ score.pre_total
                 = SetSum([c \in Categories |->
                              score.category_scores[c] * model.weights[c]], Categories)
                   + MatchedAdjustment
            /\ score.applied_rules = [i \in DOMAIN matching |-> matching[i].name]

\* rules matched and rules did not, and several categories scored
C10_Witness ==
    /\ Scored
    /\ Len(score.applied_rules) >= 2
    /\ Len(score.applied_rules) < Len(model.global_rules)
    /\ Cardinality({c \in Categories : score.category_scores[c] > 0}) >= 4

-----------------------------------------------------------------------------
(* Totality of score_lead and qualify_lead over leads with fields omitted *)

\* the optional fields of Lead that default to None
ScalarFields ==
    {"industry", "headquarters", "website_traffic_rank", "data_quality_score",
     "completeness_percentage", "last_enriched", "metrics.employee_count",
     "metrics.revenue_range", "metrics.growth_rate", "metrics.funding_amount",
     "metrics.last_funding_date", "buying_signals.recent_hiring"}

\* the optional fields of Lead that default to an empty collection or False
CollectionFields ==
    {"contacts", "data_sources", "social_media_presence",
     "tech_stack.technologies", "tech_stack.marketing_tools",
     "tech_stack.sales_tools", "tech_stack.analytics_tools",
     "buying_signals.job_postings", "buying_signals.budget_indicators",
     "buying_signals.decision_maker_changes", "buying_signals.expansion_signals"}

\* the lead l constructed without the fields of S: each takes its default
Omit(l, S) ==
    LET blank == NewLeadRecord(l.company_name.s, l.domain.s)
        Keep(f, given, default) == IF f \in S THEN default ELSE given
    IN  [l EXCEPT
            !.industry = Keep("industry", @, blank.industry),
            !.headquarters = Keep("headquarters", @, blank.headquarters),
            !.website_traffic_rank =
                Keep("website_traffic_rank", @, blank.website_traffic_rank),
            !.data_quality_score =
                Keep("data_quality_score", @, blank.data_quality_score),
            !.completeness_percentage =
                Keep("completeness_percentage", @, blank.completeness_percentage),
            !.last_enriched = Keep("last_enriched", @, blank.last_enriched),
            !.contacts = Keep("contacts", @, blank.contacts),
            !.data_sources = Keep("data_sources", @, blank.data_sources),
            !.social_media_presence =
                Keep("social_media_presence", @, blank.social_media_presence),
            !.metrics.employee_count =
                Keep("metrics.employee_count", @, blank.metrics.employee_count),
            !.metrics.revenue_range =
                Keep("metrics.revenue_range", @, blank.metrics.revenue_range),
            !.metrics.growth_rate =
                Keep("metrics.growth_rate", @, blank.metrics.growth_rate),
            !.metrics.funding_amount =
                Keep("metrics.funding_amount", @, blank.metrics.funding_amount),
            !.metrics.last_funding_date =
                Keep("metrics.last_funding_date", @, blank.metrics.last_funding_date),
            !.tech_stack.technologies =
                Keep("tech_stack.technologies", @, blank.tech_stack.technologies),
            !.tech_stack.marketing_tools =
                Keep("tech_stack.marketing_tools", @, blank.tech_stack.marketing_tools),
            !.tech_stack.sales_tools =
                Keep("tech_stack.sales_tools", @, blank.tech_stack.sales_tools),
            !.tech_stack.analytics_tools =
                Keep("tech_stack.analytics_tools", @, blank.tech_stack.analytics_tools),
            !.buying_signals.job_postings =
                Keep("buying_signals.job_postings", @, blank.buying_signals.job_postings),
            !.buying_signals.recent_hiring =
                Keep("buying_signals.recent_hiring", @,
                     blank.buying_signals.recent_hiring),
            !.buying_signals.budget_indicators =
                Keep("buying_signals.budget_indicators", @,
                     blank.buying_signals.budget_indicators),
            !.buying_signals.decision_maker_changes =
                Keep("buying_signals.decision_maker_changes", @,
                     blank.buying_signals.decision_maker_changes),
            !.buying_signals.expansion_signals =
                Keep("buying_signals.expansion_signals", @,
                     blank.buying_signals.expansion_signals)]

\* every subset of the None-defaulted fields with the collections all given or
\* all omitted, and every subset of the collections with the others all given
\* or all omitted
OmissionSets ==
    {S \cup T : S \in SUBSET ScalarFields, T \in {{}, CollectionFields}}
    \cup {S \cup T : S \in {{}, ScalarFields}, T \in SUBSET CollectionFields}

\* engines whose rules are well typed
TotalModels ==
    {[given |-> FALSE, model |-> DefaultScoringModel],
     [given |-> TRUE, model |-> TargetModel]}

InitTotal ==
    /\ \E sm \in TotalModels : model = EngineInit(sm)
    /\ \E S \in OmissionSets : lead = Omit(FullLead, S)
    /\ now = Clocks[1]
    /\ op = "init"
    /\ score = NoScore
    /\ qual = NoQual
    /\ prev = NoPrev
    /\ leads_db = <<>>
    /\ leads_storage = <<>>
    /\ tasks = <<>>
    /\ semaphore = 0
    /\ args = NoArgs
    /\ ret = NoRet

NextTotal == Score \/ Qualify

SpecTotal == InitTotal /\ [][NextTotal]_vars

\* C1: for a lead with any subset of its optional fields omitted, score_lead
\* and qualify_lead return without raising and the total_score returned is
\* between 0 and 100.
C1_Totality ==
    /\ op = "score" =>
           /\ score.st = "returned"
           /\ 0 <= score.total_score /\ score.total_score <= 100 * Unit
    /\ op = "qualify" =>
           /\ qual.st = "returned"
           /\ 0 <= qual.lead_score.total_score
           /\ qual.lead_score.total_score <= 100 * Unit

\* qualify_lead returned for a lead with some fields omitted and some given
C1_Witness ==
    /\ op = "qualify" /\ qual.st = "returned"
    /\ lead.industry = NoneV
    /\ lead.metrics.last_funding_date = NoneV
    /\ lead.buying_signals.recent_hiring = NoneV
    /\ lead.metrics.employee_count # NoneV
    /\ lead.tech_stack.technologies # List(<<>>)

-----------------------------------------------------------------------------
(* _determine_final_qualification as a function of its four inputs *)

\* min(timing_score, 20) in _calculate_timing_score
MaxTimingScore == 20

ReconArgs ==
    [base_qualification : {"Hot", "Warm", "Cold", "Unqualified"},
     intent_level : {"High", "Medium", "Low", "Minimal"},
     timing_score : 0..MaxTimingScore,
     data_quality_score : QualityValues \cup {Num(39), Num(40)}]

InitRecon ==
    /\ args \in ReconArgs
    /\ ret = NoRet
    /\ op = "init"
    /\ model = EngineInit([given |-> FALSE])
    /\ lead = MinimalLead
    /\ now = Clocks[1]
    /\ score = NoScore
    /\ qual = NoQual
    /\ prev = NoPrev
    /\ leads_db = <<>>
    /\ leads_storage = <<>>
    /\ tasks = <<>>
    /\ semaphore = 0

Reconcile ==
    /\ op = "init"
    /\ ret' = DetermineFinalQualification(args.base_qualification, args.intent_level,
                                          args.timing_score, args.data_quality_score)
    /\ op' = "reconcile"
    /\ UNCHANGED <<model, lead, now, score, qual, prev, args, leads_db, leads_storage, tasks, semaphore>>

NextRecon == Reconcile

SpecRecon == InitRecon /\ [][NextRecon]_vars

\* base tier Warm, intent level High, data_quality_score 30
WarmHighPoor ==
    /\ op = "reconcile"
    /\ args.base_qualification = "Warm"
    /\ args.intent_level = "High"
    /\ args.data_quality_score = Num(30)

-----------------------------------------------------------------------------
(* _calculate_weighted_score as a function of the category scores *)

\* category scores, in tenths of a point
CategoryLevels == {0, 155, 1000}

\* rule adjustments, in thousandths of a point
AdjustmentLevels == {-60000, 0, 27000}

AggModels ==
    {[given |-> FALSE, model |-> DefaultScoringModel],
     [given |-> TRUE, model |-> LowBarModel]}

InitAgg ==
    /\ \E sm \in AggModels : model = EngineInit(sm)
    /\ args \in [category_scores : [Categories -> CategoryLevels],
                 rule_adjustments : AdjustmentLevels]
    /\ ret = CalculateWeightedScore(model, args.category_scores, args.rule_adjustments)
    /\ op = "aggregate"
    /\ lead = MinimalLead
    /\ now = Clocks[1]
    /\ score = NoScore
    /\ qual = NoQual
    /\ prev = NoPrev
    /\ leads_db = <<>>
    /\ leads_storage = <<>>
    /\ tasks = <<>>
    /\ semaphore = 0

\* the aggregation again, with one category score higher and the rest as before
RaiseCategory ==
    /\ \E c \in Categories, v \in CategoryLevels :
           /\ v > args.category_scores[c]
           /\ args' = [args EXCEPT !.category_scores[c] = v]
    /\ ret' = CalculateWeightedScore(model, args'.category_scores,
                                     args'.rule_adjustments)
    /\ op' = "raise"
    /\ UNCHANGED <<model, lead, now, score, qual, prev, leads_db, leads_storage, tasks, semaphore>>

NextAgg == RaiseCategory

SpecAgg == InitAgg /\ [][NextAgg]_vars

\* C9: with the configuration and the matched rules fixed, raising one category
\* score and holding the other five never lowers the pre-penalty total.
C9_Monotone == [][ret' >= ret]_vars

\* a weighted category was raised to its maximum over negative rule adjustments
C9_Witness ==
    /\ op = "raise"
    /\ args.rule_adjustments < 0
    /\ args.category_scores.timing_signals = 1000
    /\ model.weights.timing_signals > 0
    /\ ret > 0

-----------------------------------------------------------------------------
(* score_lead called again on the same engine *)

\* the caller takes up one of the base leads
PickLead ==
    /\ lead' \in BaseLeads
    /\ op' = "new"
    /\ UNCHANGED <<model, now, score, qual, prev, args, ret, leads_db, leads_storage, tasks, semaphore>>

\* score_lead(lead); the LeadScore of the call before stays in score until then
ScoreAgain ==
    /\ score' = ScoreLead(model, now, lead)
    /\ op' = "score"
    /\ UNCHANGED <<model, lead, now, qual, prev, args, ret, leads_db, leads_storage, tasks, semaphore>>

\* the caller keeps the lead, the time and the LeadScore of the last call
Remember ==
    /\ op = "score"
    /\ prev' = [st |-> "called", lead |-> lead, now |-> now, score |-> score]
    /\ op' = "remember"
    /\ UNCHANGED <<model, lead, now, score, qual, args, ret, leads_db, leads_storage, tasks, semaphore>>

\* time passes
Later ==
    /\ \E i \in 1..(Len(Clocks) - 1) : now = Clocks[i] /\ now' = Clocks[i + 1]
    /\ op' = "tick"
    /\ UNCHANGED <<model, lead, score, qual, prev, args, ret, leads_db, leads_storage, tasks, semaphore>>

InitIdem ==
    /\ \E sm \in ScoringModels : model = EngineInit(sm)
    /\ lead \in BaseLeads
    /\ now = Clocks[1]
    /\ op = "init"
    /\ score = NoScore
    /\ qual = NoQual
    /\ prev = NoPrev
    /\ leads_db = <<>>
    /\ leads_storage = <<>>
    /\ tasks = <<>>
    /\ semaphore = 0
    /\ args = NoArgs
    /\ ret = NoRet

NextIdem == PickLead \/ ScoreAgain \/ Remember \/ Later

SpecIdem == InitIdem /\ [][NextIdem]_vars

-----------------------------------------------------------------------------
(* The rules of _determine_final_qualification *)

\* none of the four upgrade rules applies to the arguments
NoUpgradeApplies ==
    /\ ~(args.intent_level = "High" /\ args.base_qualification = "Warm")
    /\ ~(args.intent_level = "High" /\ args.base_qualification = "Cold")
    /\ ~(args.intent_level = "Medium" /\ args.base_qualification = "Cold")
    /\ ~(args.timing_score >= 15 /\ args.base_qualification = "Warm")

\* C11: the first applicable upgrade rule wins: High and Warm gives Hot, High
\* and Cold gives Warm, Medium and Cold gives Warm, timing_score >= 15 and Warm
\* gives Hot; with no rule applicable and the data quality absent or >= 40 the
\* final qualification is the base tier.
C11_UpgradeRules ==
    op = "reconcile" =>
        /\ (args.intent_level = "High" /\ args.base_qualification = "Warm")
               => ret = "Hot"
        /\ (args.intent_level = "High" /\ args.base_qualification = "Cold")
               => ret = "Warm"
        /\ (args.intent_level = "Medium" /\ args.base_qualification = "Cold")
               => ret = "Warm"
        /\ (args.timing_score >= 15 /\ args.base_qualification = "Warm")
               => ret = "Hot"
        /\ (/\ NoUpgradeApplies
            /\ \/ args.data_quality_score.t = "none"
               \/ args.data_quality_score.n >= 40)
               => ret = args.base_qualification

\* the timing rule alone upgraded a Warm lead, at the least timing score
C11_Witness ==
    /\ op = "reconcile"
    /\ args.base_qualification = "Warm"
    /\ args.intent_level = "Low"
    /\ args.timing_score = 15
    /\ ret = "Hot"

\* C12: with data_quality_score present and below 40 (0 included) and no
\* upgrade rule applicable, Hot becomes Warm and Warm becomes Cold; Cold and
\* Unqualified stay.
C12_Downgrade ==
    (/\ op = "reconcile"
     /\ NoUpgradeApplies
     /\ args.data_quality_score.t # "none"
     /\ args.data_quality_score.n < 40)
    => /\ args.base_qualification = "Hot" => ret = "Warm"
       /\ args.base_qualification = "Warm" => ret = "Cold"
       /\ args.base_qualification \in {"Cold", "Unqualified"}
              => ret = args.base_qualification

-----------------------------------------------------------------------------
(* Constructing an engine from a caller's ScoringModel *)

\* weights that sum to 1.75
UnbalancedModel ==
    [DefaultScoringModel EXCEPT !.weights.company_fit = 100]

ConfigModels == ScoringModels \cup {[given |-> TRUE, model |-> UnbalancedModel]}

\* args holds what the caller passes: the ScoringModel as it is before the
\* engine is constructed, and the lead.  model is the object self.model will
\* be bound to: the caller's object, or a new ScoringModel() when none is given.
InitConfig ==
    /\ args \in [scoring_model : ConfigModels, lead : SampleLeads]
    /\ model = IF args.scoring_model.given THEN args.scoring_model.model
               ELSE DefaultScoringModel
    /\ lead = args.lead
    /\ now = Clocks[1]
    /\ op = "init"
    /\ score = NoScore
    /\ qual = NoQual
    /\ prev = NoPrev
    /\ leads_db = <<>>
    /\ leads_storage = <<>>
    /\ tasks = <<>>
    /\ semaphore = 0
    /\ ret = NoRet

\* LeadScoringEngine(scoring_model): self.model is the caller's object, so the
\* assignment to self.model.global_rules is an assignment to that object
Construct ==
    /\ op = "init"
    /\ model' = EngineInit(args.scoring_model)
    /\ op' = "construct"
    /\ UNCHANGED <<lead, now, score, qual, prev, args, ret, leads_db, leads_storage, tasks, semaphore>>

ConfigScore == op # "init" /\ Score

ConfigQualify == op # "init" /\ Qualify

NextConfig == Construct \/ ConfigScore \/ ConfigQualify

SpecConfig == InitConfig /\ [][NextConfig]_vars

\* C13: constructing an engine from a caller's ScoringModel, score_lead and
\* qualify_lead leave the lead and that ScoringModel as they were given.
C13_ReadOnlyInputs ==
    op # "init" =>
        /\ lead = args.lead
        /\ args.scoring_model.given => model = args.scoring_model.model

\* C14: score_lead never runs with weights that validate_weights rejects:
\* such a ScoringModel is refused when the engine is constructed.
C14_WeightsValidated ==
    (op = "score" /\ score.st # "none") => ~ValidateWeightsRaises(model.weights)

-----------------------------------------------------------------------------
(* Leads that reach and pass the caps of the scorers and the intent analyzer *)

\* a lead with every signal at its strongest
RichLead ==
    [NewLeadRecord("Acme Tools", "acme.io") EXCEPT
        !.industry = Str("Technology"),
        !.headquarters = Str("San Francisco, CA"),
        !.website_traffic_rank = Num(50000),
        !.data_quality_score = Num(100),
        !.completeness_percentage = Num(300),
        !.last_enriched = Date(990),
        !.social_media_presence =
            Dict(<<"linkedin", "https://linkedin.com/company/acme",
                   "twitter", "https://twitter.com/acme",
                   "blog", "https://acme.io/blog">>),
        !.contacts = List(<<"contact@acme.io">>),
        !.data_sources = List(<<"clearbit_mock">>),
        !.metrics.employee_count = Num(150),
        !.metrics.revenue_range = Enum("1M-10M"),
        !.metrics.growth_rate = Num(60),
        !.metrics.funding_amount = Num(25000000),
        !.metrics.last_funding_date = Date(940),
        !.tech_stack.technologies =
            List(<<"Python", "React", "AWS", "PostgreSQL", "Docker", "HubSpot",
                   "Legacy CRM">>),
        !.tech_stack.marketing_tools = List(<<"HubSpot">>),
        !.tech_stack.sales_tools = List(<<"Salesforce">>),
        !.tech_stack.analytics_tools = List(<<"Google Analytics">>),
        !.buying_signals.job_postings =
            List(<<"VP Marketing", "Marketing Manager", "Marketing Automation Lead",
                   "Software Engineer", "VP Marketing">>),
        !.buying_signals.recent_hiring = Num(12),
        !.buying_signals.budget_indicators =
            List(<<"Budget approved", "New budget", "Budget approved">>),
        !.buying_signals.decision_maker_changes = Bool(TRUE),
        !.buying_signals.expansion_signals =
            List(<<"International expansion", "CRM migration",
                   "International expansion">>)]

\* RichLead with the fields one scorer reads taken through their cases
CapLeads ==
    LET FundingDates == {NoneV, Date(990), Date(970), Date(940), Date(880), Date(700)}
        PostingLists ==
            {List(<<>>), List(<<"Software Engineer">>), List(<<"Marketing Manager">>),
             List(<<"Growth Lead, Digital Marketing">>),
             RichLead.buying_signals.job_postings}
        CompanyLeads ==
            {[RichLead EXCEPT !.industry = i, !.metrics.employee_count = e,
                              !.metrics.revenue_range = r, !.headquarters = h] :
                i \in {NoneV, Str("Technology"), Str("SaaS"), Str("Manual Logistics")},
                e \in {NoneV, Num(0), Num(10), Num(30), Num(150), Num(800), Num(5000)},
                r \in {NoneV, Enum("1M-10M")},
                h \in {NoneV, Str("San Francisco, CA"), Str("Toronto, Canada"),
                       Str("London, UK"), Str("Berlin, Germany")}}
        GrowthLeads ==
            {[RichLead EXCEPT !.metrics.last_funding_date = d,
                              !.buying_signals.recent_hiring = h,
                              !.buying_signals.job_postings = p,
                              !.metrics.growth_rate = g,
                              !.metrics.funding_amount = a] :
                d \in FundingDates,
                h \in {NoneV, Num(0), Num(1), Num(3), Num(6), Num(12)},
                p \in PostingLists,
                g \in {NoneV, Num(0), Num(5), Num(10), Num(30), Num(100)},
                a \in {NoneV, Num(25000000)}}
        TechnologyLeads ==
            {[RichLead EXCEPT !.tech_stack.technologies = t,
                              !.tech_stack.marketing_tools = m,
                              !.tech_stack.sales_tools = s,
                              !.tech_stack.analytics_tools = a] :
                t \in {List(<<>>), List(<<"Legacy CRM">>), List(<<"Python">>),
                       List(<<"Python", "React", "AWS", "PostgreSQL">>),
                       RichLead.tech_stack.technologies},
                m \in {List(<<>>), List(<<"HubSpot">>)},
                s \in {List(<<>>), List(<<"Salesforce">>)},
                a \in {List(<<>>), List(<<"Google Analytics">>)}}
        EngagementLeads ==
            {[RichLead EXCEPT !.website_traffic_rank = r, !.social_media_presence = s,
                              !.last_enriched = e] :
                r \in {NoneV, Num(0), Num(50000), Num(250000), Num(750000), Num(2000000)},
                s \in {Dict(<<>>), Dict(<<"blog", "https://acme.io/blog">>),
                       Dict(<<"twitter", "https://twitter.com/acme">>),
                       RichLead.social_media_presence},
                e \in {NoneV, Date(990), Date(900)}}
        TimingLeads ==
            {[RichLead EXCEPT !.buying_signals.decision_maker_changes = c,
                              !.buying_signals.expansion_signals = x,
                              !.metrics.last_funding_date = d] :
                c \in {Bool(FALSE), Bool(TRUE)},
                x \in {List(<<>>), List(<<"International expansion">>),
                       List(<<"CRM migration">>), RichLead.buying_signals.expansion_signals},
                d \in FundingDates}
        BuyingLeads ==
            {[RichLead EXCEPT !.buying_signals.budget_indicators = b,
                              !.buying_signals.job_postings = p,
                              !.industry = i] :
                b \in {List(<<>>), List(<<"Budget approved">>),
                       RichLead.buying_signals.budget_indicators},
                p \in PostingLists,
                i \in {NoneV, Str("Technology"), Str("Manual Logistics")}}
    IN  CompanyLeads \cup GrowthLeads \cup TechnologyLeads \cup EngagementLeads
            \cup TimingLeads \cup BuyingLeads

InitCaps ==
    /\ \E sm \in TotalModels : model = EngineInit(sm)
    /\ lead \in CapLeads
    /\ now \in Range(Clocks)
    /\ op = "init"
    /\ score = NoScore
    /\ qual = NoQual
    /\ prev = NoPrev
    /\ leads_db = <<>>
    /\ leads_storage = <<>>
    /\ tasks = <<>>
    /\ semaphore = 0
    /\ args = NoArgs
    /\ ret = NoRet

NextCaps == Score \/ Qualify

SpecCaps == InitCaps /\ [][NextCaps]_vars

\* max_score of the six scorers, in tenths of a point
CategoryCaps ==
    [company_fit |-> 250, growth_indicators |-> 200, technology_fit |-> 150,
     engagement_signals |-> 150, timing_signals |-> 150, buying_signals |-> 100]

\* C15: every category score returned by score_lead lies between 0 and its
\* cap: 25, 20, 15, 15, 15 and 10.
C15_CategoryCaps ==
    Scored =>
        \A c \in Categories :
            0 <= score.category_scores[c] /\ score.category_scores[c] <= CategoryCaps[c]

\* five categories at their caps in one LeadScore
C15_Witness ==
    /\ Scored
    /\ \A c \in Categories \ {"buying_signals"} :
           score.category_scores[c] = CategoryCaps[c]
    /\ Len(lead.buying_signals.job_postings.l) > 4

-----------------------------------------------------------------------------
(* Confidence and priority *)

\* C16: the confidence of a LeadScore, in 1/3000, is the 0.6/0.4 blend of
\* data_quality_score and completeness_percentage whenever both are present
\* (0 included), the single present value when one is present, 0.5 when
\* neither is, and always within [0, 1].
C16_Confidence ==
    Scored =>
        LET q == lead.data_quality_score
            c == lead.completeness_percentage
        IN  /\ score.confidence
                 = IF q.t # "none" /\ c.t # "none" THEN 18 * q.n + 4 * c.n
                   ELSE IF q.t # "none" THEN 30 * q.n
                   ELSE IF c.t # "none" THEN 10 * c.n
                   ELSE 1500
            /\ 0 <= score.confidence /\ score.confidence <= 3000

\* C17: with data_quality_score present (0 included) the priority score of
\* qualify_lead, in 1/(5 * Unit), is 100 * (0.4 * total/100 + 0.3 * min(intent/20, 1)
\* + 0.2 * data_quality/100 + 0.1 * timing/20), and lies in 0..100.
C17_PriorityScore ==
    (op = "qualify" /\ qual.st = "returned" /\ lead.data_quality_score.t # "none")
    => /\ qual.priority_score
            = CalculatePriorityScore(qual.lead_score.total_score, qual.intent_score,
                                     qual.timing_score, lead.data_quality_score.n)
       /\ 0 <= qual.priority_score /\ qual.priority_score <= 100 * 5 * Unit


\* C18: the intent score of qualify_lead's analyze_intent is the sum of the
\* four component scores, each within its own cap (job postings 10,
\* technology 8, growth 6, funding 5), and so lies between 0 and 29.
C18_IntentBounds ==
    (op = "qualify" /\ qual.st = "returned") =>
        LET job == IF Truthy(lead.buying_signals.job_postings)
                   THEN AnalyzeJobPostingIntent(lead.buying_signals.job_postings.l)
                   ELSE 0
            tech == AnalyzeTechnologyIntent(lead)
            growth == AnalyzeGrowthIntent(lead).v
            funding == AnalyzeFundingIntent(now, lead).v
        IN  /\ qual.intent_score = job + tech + growth + funding
            /\ 0 <= job /\ job <= 10
            /\ 0 <= tech /\ tech <= 8
            /\ 0 <= growth /\ growth <= 6
            /\ 0 <= funding /\ funding <= 5
            /\ 0 <= qual.intent_score /\ qual.intent_score <= 29

\* every component at its cap, from raw sums above the caps
C18_Witness ==
    /\ op = "qualify"
    /\ qual.st = "returned"
    /\ qual.intent_score = 29
    /\ lead = RichLead

-----------------------------------------------------------------------------
(* The lead store of the API: backend/app.py *)

\* the store is explored up to this many leads
MaxLeads == 2

\* f"lead_{n}"
LeadId(n) ==
    CASE n = 1 -> "lead_1"
      [] n = 2 -> "lead_2"
      [] n = 3 -> "lead_3"
      [] OTHER -> "lead_n"

\* leads_db[id] = lead
StorePut(db, id, stored) ==
    [k \in DOMAIN db \cup {id} |-> IF k = id THEN stored ELSE db[k]]

\* the shared steps without the assignment of qualification_status
ProcessLeadNoStatus(m, clock, l, clearbit_ok, hunter_ok) ==
    CHOOSE r \in
        {[err |-> lead_score.st = "raised" \/ AnalyzeIntent(clock, enriched_lead).err
                  \/ CalculateTimingScore(clock, enriched_lead).err,
          stored |-> [lead |-> enriched_lead,
                      lead_score |-> Num(lead_score.total_score),
                      qualification_status |-> NoneV,
                      score_breakdown |-> lead_score.category_scores,
                      scored_by |-> lead_score]] :
            <<enriched_lead, lead_score>> \in
                {<<e, ScoreLead(m, clock, e)>> :
                    e \in {EnrichLead(clock, l, clearbit_ok, hunter_ok)}}} : TRUE

\* the enrich, score, qualify and assign steps shared by enrich_lead and
\* bulk_process_leads: the lead with lead_score, qualification_status and
\* score_breakdown set from one LeadScore (kept as scored_by), or an exception.
\* qualify_lead, whose result is not stored, raises when its own score_lead
\* (the same default engine), analyze_intent or _calculate_timing_score raises
ProcessLead(m, clock, l, clearbit_ok, hunter_ok) ==
    CHOOSE r \in
        {[err |-> lead_score.st = "raised" \/ AnalyzeIntent(clock, enriched_lead).err
                  \/ CalculateTimingScore(clock, enriched_lead).err,
          stored |-> [lead |-> enriched_lead,
                      lead_score |-> Num(lead_score.total_score),
                      qualification_status |-> Str(lead_score.qualification_status),
                      score_breakdown |-> lead_score.category_scores,
                      scored_by |-> lead_score]] :
            <<enriched_lead, lead_score>> \in
                {<<e, ScoreLead(m, clock, e)>> :
                    e \in {EnrichLead(clock, l, clearbit_ok, hunter_ok)}}} : TRUE

\* the rows of an uploaded CSV: a row without a domain is skipped
CsvRows ==
    {[domain |-> "", cols |-> <<>>],
     [domain |-> "acme.io", cols |-> <<>>],
     [domain |-> "example-tech.com",
      cols |-> ("company_name" :> Str("Example Tech Corp")
                @@ "industry" :> Str("Technology")
                @@ "headquarters" :> Str("San Francisco, CA"))]}

\* the Lead built from one CSV row
RowLead(row) ==
    LET named == NewLeadRecord(IF "company_name" \in DOMAIN row.cols
                               THEN row.cols["company_name"].s
                               ELSE CompanyTitle(row.domain), row.domain)
        l1 == IF "industry" \in DOMAIN row.cols
              THEN [named EXCEPT !.industry = row.cols["industry"]] ELSE named
    IN  IF "headquarters" \in DOMAIN row.cols
        THEN [l1 EXCEPT !.headquarters = row.cols["headquarters"]] ELSE l1

\* the loop of bulk_process_leads over the batch: each lead is scored, given
\* the id lead_{len(leads_db) + 1} and stored; an exception ends the loop and
\* keeps what was stored (after[i] is the store after i leads)
BulkStore(m, clock, db, batch) ==
    LET after[i \in 0..Len(batch)] ==
            IF i = 0 THEN [err |-> FALSE, db |-> db]
            ELSE IF after[i - 1].err THEN after[i - 1]
            ELSE CHOOSE next \in
                     {IF r.err THEN [err |-> TRUE, db |-> after[i - 1].db]
                      ELSE [err |-> FALSE,
                            db |-> StorePut(after[i - 1].db, id,
                                            [r.stored EXCEPT !.lead.id = Str(id)])] :
                         r \in {ProcessLead(m, clock, RowLead(batch[i].row),
                                            batch[i].clearbit_ok, batch[i].hunter_ok)},
                         id \in {LeadId(Cardinality(DOMAIN after[i - 1].db) + 1)}} : TRUE
    IN  after[Len(batch)].db

\* the bodies of PUT /api/leads/{lead_id}; fields outside allowed_fields are ignored
LeadUpdates ==
    {"headquarters" :> Str("London, UK"),
     "industry" :> Str("SaaS"),
     "lead_score" :> Num(99),
     "company_name" :> Str("Example Tech Corp") @@ "industry" :> Num(5)}

\* update_lead on the stored lead: setattr for the allowed fields, then a
\* re-score when industry or company_name is among the updates; an exception
\* of score_lead leaves the fields set and the scores as they were
UpdateStored(m, clock, stored, updates) ==
    LET set(l, field) == IF field \in DOMAIN updates THEN updates[field] ELSE l[field]
        l1 == [stored.lead EXCEPT !.company_name = set(stored.lead, "company_name"),
                                  !.industry = set(stored.lead, "industry"),
                                  !.headquarters = set(stored.lead, "headquarters")]
    IN  IF "industry" \in DOMAIN updates \/ "company_name" \in DOMAIN updates
        THEN CHOOSE updated \in
                 {IF lead_score.st = "raised" THEN [stored EXCEPT !.lead = l]
                  ELSE [stored EXCEPT !.lead = l,
                                      !.lead_score = Num(lead_score.total_score),
                                      !.qualification_status =
                                          Str(lead_score.qualification_status),
                                      !.scored_by = lead_score] :
                     <<l, lead_score>> \in {<<x, ScoreLead(m, clock, x)>> : x \in {l1}}} :
                 TRUE
        ELSE [stored EXCEPT !.lead = l1]

InitStore ==
    /\ model = EngineInit([given |-> FALSE])
    /\ lead = MinimalLead
    /\ now = Clocks[1]
    /\ op = "init"
    /\ score = NoScore
    /\ qual = NoQual
    /\ prev = NoPrev
    /\ args = NoArgs
    /\ ret = NoRet
    /\ leads_db = <<>>
    /\ leads_storage = <<>>
    /\ tasks = <<>>
    /\ semaphore = 0

\* POST /api/leads/enrich: the lead keeps a caller's id, else gets
\* lead_{len(leads_db) + 1}
ApiEnrichLead ==
    /\ \E l \in {SmokeLead, [SmokeLead EXCEPT !.id = Str("lead_1")]},
          clearbit_ok \in BOOLEAN :
       \E r \in {ProcessLead(model, now, l, clearbit_ok, TRUE)} :
           LET id == IF Truthy(l.id) THEN l.id.s
                     ELSE LeadId(Cardinality(DOMAIN leads_db) + 1)
           IN  /\ Cardinality(DOMAIN leads_db \cup {id}) <= MaxLeads
               /\ leads_db' = IF r.err THEN leads_db
                              ELSE StorePut(leads_db, id,
                                            [r.stored EXCEPT !.lead.id = Str(id)])
    /\ UNCHANGED <<model, lead, now, op, score, qual, prev, args, ret, leads_storage, tasks, semaphore>>

\* POST /api/leads/bulk-process
ApiBulkProcessLeads ==
    /\ \E n \in 1..MaxLeads :
       \E rows \in [1..n -> [row : CsvRows, clearbit_ok : {TRUE}, hunter_ok : {TRUE}]] :
           LET batch == SelectSeq(rows, LAMBDA r : r.row.domain # "")
           IN  /\ batch # <<>>
               /\ Cardinality(DOMAIN leads_db) + Len(batch) <= MaxLeads
               /\ leads_db' = BulkStore(model, now, leads_db, batch)
    /\ UNCHANGED <<model, lead, now, op, score, qual, prev, args, ret, leads_storage, tasks, semaphore>>

\* PUT /api/leads/{lead_id}
ApiUpdateLead ==
    /\ \E lead_id \in DOMAIN leads_db, updates \in LeadUpdates :
           leads_db' = [leads_db EXCEPT
                           ![lead_id] = UpdateStored(model, now, leads_db[lead_id],
                                                     updates)]
    /\ UNCHANGED <<model, lead, now, op, score, qual, prev, args, ret, leads_storage, tasks, semaphore>>

\* DELETE /api/leads/{lead_id}
ApiDeleteLead ==
    /\ \E lead_id \in DOMAIN leads_db :
           leads_db' = [k \in DOMAIN leads_db \ {lead_id} |-> leads_db[k]]
    /\ UNCHANGED <<model, lead, now, op, score, qual, prev, args, ret, leads_storage, tasks, semaphore>>

\* time passes between requests, once
StoreTick == now = Clocks[1] /\ Tick

NextStore ==
    ApiEnrichLead \/ ApiBulkProcessLeads \/ ApiUpdateLead \/ ApiDeleteLead
    \/ StoreTick

SpecStore == InitStore /\ [][NextStore]_vars

\* C19: every stored lead has lead_score and qualification_status both set
\* or both unset, and when set they are the total and the tier of one and
\* the same score_lead computation.
C19_ScoreStatusPaired ==
    \A id \in DOMAIN leads_db :
        LET stored == leads_db[id]
        IN  /\ (stored.lead_score.t = "none") <=> (stored.qualification_status.t = "none")
            /\ stored.lead_score.t # "none" =>
                   /\ stored.lead_score.n = stored.scored_by.total_score
                   /\ stored.qualification_status.s
                          = stored.scored_by.qualification_status

\* a stored lead was re-scored by an update of its industry
C19_Witness ==
    \E id \in DOMAIN leads_db :
        /\ leads_db[id].scored_by.category_scores # leads_db[id].score_breakdown
        /\ leads_db[id].lead.industry = Str("SaaS")
        /\ leads_db[id].qualification_status.s
               = leads_db[id].scored_by.qualification_status

\* C20: for every stored lead the weighted sum of score_breakdown plus the
\* rule adjustment of the computation that set lead_score is the pre-penalty
\* total of that computation.
C20_BreakdownReconstructs ==
    \A id \in DOMAIN leads_db :
        CalculateWeightedScore(model, leads_db[id].score_breakdown,
                               leads_db[id].scored_by.rule_adjustments)
            = leads_db[id].scored_by.pre_total

-----------------------------------------------------------------------------
(* The tiers of _analyze_job_posting_intent *)

\* C21: each tier a posting matches adds its points independently of the
\* others (high-intent title 5, medium-intent title 3, decision-maker title 2,
\* technology keyword 4), the sum over the postings being capped at 10.
C21_AdditiveTiers ==
    (op = "qualify" /\ qual.st = "returned") =>
        LET job_postings == lead.buying_signals.job_postings.l
            Points(keywords, posting, n) ==
                IF AnyIn(keywords, Lower(posting)) THEN n ELSE 0
            additive ==
                [i \in DOMAIN job_postings |->
                    Points({"vp marketing", "marketing director", "growth lead",
                            "head of growth"}, job_postings[i], 5)
                    + Points({"marketing manager", "digital marketing",
                              "marketing analyst"}, job_postings[i], 3)
                    + Points({"cmo", "ceo", "vp", "director", "head of"},
                             job_postings[i], 2)
                    + Points({"automation", "analytics", "crm", "marketing ops",
                              "martech"}, job_postings[i], 4)]
        IN  qual.intent_score
                = Min(SumOver(additive, Len(job_postings)), 10)
                  + AnalyzeTechnologyIntent(lead) + AnalyzeGrowthIntent(lead).v
                  + AnalyzeFundingIntent(now, lead).v


\* C22: the timing score of qualify_lead is min(20, f + h + d + q): f from the
\* days since funding (8 for 30..120, 5 for 121..180, 3 below 30, else 0),
\* h from recent_hiring (6 from 5, 3 from 2), d = 5 for a decision-maker
\* change, q = 2 in the months 1, 4, 7 and 10; it lies in 0..20.
C22_TimingScore ==
    (op = "qualify" /\ qual.st = "returned") =>
        LET funded == lead.metrics.last_funding_date
            days == now.day - funded.n
            hiring == lead.buying_signals.recent_hiring
            f == IF funded.t = "none" THEN 0
                 ELSE IF 30 <= days /\ days <= 120 THEN 8
                 ELSE IF 120 < days /\ days <= 180 THEN 5
                 ELSE IF days < 30 THEN 3
                 ELSE 0
            h == IF hiring.t = "none" THEN 0
                 ELSE IF hiring.n >= 5 THEN 6
                 ELSE IF hiring.n >= 2 THEN 3
                 ELSE 0
            d == IF lead.buying_signals.decision_maker_changes = Bool(TRUE) THEN 5 ELSE 0
            q == IF now.month \in {1, 4, 7, 10} THEN 2 ELSE 0
        IN  /\ qual.timing_score = Min(20, f + h + d + q)
            /\ 0 <= qual.timing_score /\ qual.timing_score <= 20

\* funded exactly 30 days ago, hiring, a decision-maker change and the first
\* month of a quarter: 8 + 6 + 5 + 2, capped at 20
C22_Witness ==
    /\ op = "qualify"
    /\ qual.st = "returned"
    /\ now.day - lead.metrics.last_funding_date.n = 30
    /\ lead.metrics.last_funding_date.t = "date"
    /\ lead.buying_signals.recent_hiring = Num(12)
    /\ qual.timing_score = 20

-----------------------------------------------------------------------------
(* Totality of _rule_matches over conditions *)

\* C23: for every rule of the engine whose field resolves to a value on the
\* lead and whose operator is one of the seven, _rule_matches returns a
\* boolean: it does not raise, whatever the condition's value is.
C23_MatcherTotal ==
    op = "score" =>
        \A i \in DOMAIN model.global_rules :
            LET rule == model.global_rules[i]
            IN  (/\ ~Unmatchable(rule)
                 /\ GetFieldValue(lead, rule.condition.field).t # "none")
                => /\ RuleMatches(model, now, lead, rule) # "raise"
                   /\ score.st = "returned"

-----------------------------------------------------------------------------
(* Merging contacts: _merge_enrichment_data (Hunter) and merge_leads *)

\* the orders list(set(xs)) can produce: every arrangement of the distinct items
SetOrders(S) ==
    {q \in [1..Cardinality(S) -> S] : Range(q) = S}

\* merge_leads picks the lead with the higher data_quality_score as base_lead,
\* and existing_lead when a score is missing or zero
MergeBaseIsNew(existing_lead, new_lead) ==
    /\ Truthy(new_lead.data_quality_score)
    /\ Truthy(existing_lead.data_quality_score)
    /\ new_lead.data_quality_score.n > existing_lead.data_quality_score.n

\* merge_leads(existing_lead, new_lead): base_lead after the merge.  tech_order
\* and source_order are the orders list(set(...)) yields.
MergeLeads(clock, existing_lead, new_lead, tech_order, source_order) ==
    LET base_lead == IF MergeBaseIsNew(existing_lead, new_lead)
                     THEN new_lead ELSE existing_lead
        merge_lead == IF MergeBaseIsNew(existing_lead, new_lead)
                      THEN existing_lead ELSE new_lead
    IN  [base_lead EXCEPT
            !.contacts = List(AddContacts(@.l, merge_lead.contacts.l)),
            !.tech_stack.technologies = List(tech_order),
            !.data_sources = List(source_order),
            !.last_enriched = Date(clock.day)]

\* contact lists of the merged leads: a contact is its e-mail address, "" is a
\* contact without one (email = None)
MergeEmails == {"contact@acme.io", "john.doe@acme.io", "sales@acme.io", ""}

MergeContactLists ==
    {<<>>} \cup [1..1 -> MergeEmails] \cup [1..2 -> MergeEmails]
    \cup {<<"sales@acme.io", "contact@acme.io", "john.doe@acme.io">>,
          <<"sales@acme.io", "jane.smith@acme.io", "sales@acme.io">>}

MergeQualities == {NoneV, Num(60), Num(80)}

InitMerge ==
    /\ \E c1 \in MergeContactLists, q1 \in MergeQualities :
          lead = [MinimalLead EXCEPT !.contacts = List(c1),
                                     !.data_quality_score = q1,
                                     !.tech_stack.technologies = List(<<"Python">>)]
    /\ \E c2 \in MergeContactLists, q2 \in MergeQualities :
          args = [new_lead |->
                    [MinimalLead EXCEPT
                        !.contacts = List(c2),
                        !.data_quality_score = q2,
                        !.tech_stack.technologies = List(<<"React", "Python">>),
                        !.data_sources = List(<<"clearbit_mock">>)]]
    /\ model = DefaultScoringModel
    /\ now = Clocks[1]
    /\ op = "init"
    /\ score = NoScore
    /\ qual = NoQual
    /\ prev = NoPrev
    /\ ret = NoRet
    /\ leads_db = <<>>
    /\ leads_storage = <<>>
    /\ tasks = <<>>
    /\ semaphore = 0

\* _merge_enrichment_data(lead, result) with a Hunter result: lead is changed
\* in place
MergeHunterResult ==
    /\ op = "init"
    /\ prev' = [existing_lead |-> lead, new_lead |-> args.new_lead]
    /\ lead' = MergeHunter(lead)
    /\ op' = "merge_hunter"
    /\ UNCHANGED <<model, now, score, qual, args, ret, leads_db, leads_storage, tasks, semaphore>>

\* merge_leads(existing_lead, new_lead): base_lead is changed in place and
\* returned
MergeLeadsCall ==
    /\ op # "merge_leads"
    /\ prev' = [existing_lead |-> lead, new_lead |-> args.new_lead]
    /\ \E tech_order \in SetOrders(Range(lead.tech_stack.technologies.l)
                                   \cup Range(args.new_lead.tech_stack.technologies.l)),
          source_order \in SetOrders(Range(lead.data_sources.l)
                                     \cup Range(args.new_lead.data_sources.l)) :
          /\ ret' = MergeLeads(now, lead, args.new_lead, tech_order, source_order)
          /\ IF MergeBaseIsNew(lead, args.new_lead)
             THEN /\ args' = [args EXCEPT !.new_lead = ret']
                  /\ lead' = lead
             ELSE /\ lead' = ret'
                  /\ args' = args
    /\ op' = "merge_leads"
    /\ UNCHANGED <<model, now, score, qual, leads_db, leads_storage, tasks, semaphore>>

NextMerge == MergeHunterResult \/ MergeLeadsCall

SpecMerge == InitMerge /\ [][NextMerge]_vars

\* no two contacts of the list have the same non-empty e-mail address
UniqueEmails(contacts) ==
    \A i, j \in DOMAIN contacts :
        (contacts[i] = contacts[j] /\ contacts[i] # "") => i = j

\* the list starts with the given contacts, in their order
KeepsContacts(before, after) ==
    /\ Len(before) <= Len(after)
    /\ SubSeq(after, 1, Len(before)) = before

\* C24: when the contacts of the lead (of both leads passed to merge_leads)
\* hold no two contacts with the same non-empty e-mail address, the contacts
\* after merging a Hunter result (after merge_leads) hold none either, and
\* start with the contacts the base lead had, in their order.
C24_MergeKeepsEmailsUnique ==
    /\ (op = "merge_hunter" /\ UniqueEmails(prev.existing_lead.contacts.l))
           => /\ UniqueEmails(lead.contacts.l)
              /\ KeepsContacts(prev.existing_lead.contacts.l, lead.contacts.l)
    /\ (/\ op = "merge_leads"
        /\ UniqueEmails(prev.existing_lead.contacts.l)
        /\ UniqueEmails(prev.new_lead.contacts.l))
           => /\ UniqueEmails(ret.contacts.l)
              /\ KeepsContacts(IF MergeBaseIsNew(prev.existing_lead, prev.new_lead)
                               THEN prev.new_lead.contacts.l
                               ELSE prev.existing_lead.contacts.l,
                               ret.contacts.l)

\* merge_leads with the new lead as base drops a contact of the existing lead
\* whose address the base already holds and appends another one
C24_Witness ==
    /\ op = "merge_leads"
    /\ MergeBaseIsNew(prev.existing_lead, prev.new_lead)
    /\ prev.new_lead.contacts.l = <<"sales@acme.io", "contact@acme.io">>
    /\ prev.existing_lead.contacts.l =
           <<"contact@acme.io", "john.doe@acme.io", "jane.smith@acme.io">>
    /\ ret.contacts.l = <<"sales@acme.io", "contact@acme.io",
                          "john.doe@acme.io", "jane.smith@acme.io">>

-----------------------------------------------------------------------------
(* The default scoring model *)

\* C25: under the default scoring model no default rule matches, total_score
\* is at most 18 and score_lead returns Unqualified; qualify_lead, which always
\* scores with the default model, returns final_qualification Unqualified.
C25_DefaultUnqualified ==
    /\ (Scored /\ model = EngineInit([given |-> FALSE]))
           => /\ score.applied_rules = <<>>
              /\ \A i \in DOMAIN model.global_rules :
                     RuleMatches(model, now, lead, model.global_rules[i]) = "no_match"
              /\ score.total_score <= 18 * Unit
              /\ score.qualification_status = "Unqualified"
    /\ (op = "qualify" /\ qual.st = "returned")
           => /\ qual.lead_score.total_score <= 18 * Unit
              /\ qual.final_qualification = "Unqualified"

\* qualify_lead on a lead with high intent and a timing score above 15 whose
\* default total is above 17
C25_Witness ==
    /\ op = "qualify"
    /\ qual.st = "returned"
    /\ qual.lead_score.total_score > 17 * Unit
    /\ qual.intent_level = "High"
    /\ qual.timing_score > 15
    /\ qual.final_qualification = "Unqualified"

-----------------------------------------------------------------------------
(* How far _determine_final_qualification moves a tier *)

\* the position of a tier in the order Unqualified < Cold < Warm < Hot
TierRank(tier) ==
    CASE tier = "Unqualified" -> 0
      [] tier = "Cold" -> 1
      [] tier = "Warm" -> 2
      [] tier = "Hot" -> 3

\* C26: the final qualification is the base tier or a tier next to it in the
\* order Unqualified < Cold < Warm < Hot; Unqualified stays Unqualified, Hot is
\* never upgraded and Cold is never downgraded.
C26_OneStep ==
    op = "reconcile" =>
        LET base == TierRank(args.base_qualification)
            final == TierRank(ret)
        IN  /\ ret \in {"Hot", "Warm", "Cold", "Unqualified"}
            /\ final - base \in {-1, 0, 1}
            /\ args.base_qualification = "Unqualified" => ret = "Unqualified"
            /\ args.base_qualification = "Hot" => final <= base
            /\ args.base_qualification = "Cold" => final >= base

\* a Hot lead with high intent, a full timing score and data quality 30 moves
\* one step down
C26_Witness ==
    /\ op = "reconcile"
    /\ args.base_qualification = "Hot"
    /\ args.intent_level = "High"
    /\ args.timing_score = MaxTimingScore
    /\ args.data_quality_score = Num(30)
    /\ ret = "Warm"

-----------------------------------------------------------------------------
(* The outreach timing and the tier of one LeadScore *)

\* the outreach timing that goes with a tier
TierTiming(tier) ==
    CASE tier = "Hot" -> "Immediate"
      [] tier = "Warm" -> "Within 48 hours"
      [] tier = "Cold" -> "This week"
      [] tier = "Unqualified" -> "When additional data available"

\* C27: for any thresholds, the outreach timing of a LeadScore is the one of
\* its tier: Immediate for Hot, Within 48 hours for Warm, This week for Cold,
\* When additional data available for Unqualified.
C27_OutreachAgrees ==
    Scored => score.outreach_timing = TierTiming(score.qualification_status)

-----------------------------------------------------------------------------
(* Ids of new leads in the store of app.py *)

\* C28: a step of POST /api/leads/enrich for a lead without an id stores the
\* lead under an id that was not in leads_db: the store grows by one and every
\* lead stored before is still there under its id.
C28_NewLeadNeverOverwrites ==
    [][\A clearbit_ok \in BOOLEAN :
          \A r \in {ProcessLead(model, now, SmokeLead, clearbit_ok, TRUE)} :
              LET id == LeadId(Cardinality(DOMAIN leads_db) + 1)
              IN  (/\ ~r.err
                   /\ leads_db' = StorePut(leads_db, id,
                                           [r.stored EXCEPT !.lead.id = Str(id)]))
                  => /\ id \notin DOMAIN leads_db
                     /\ Cardinality(DOMAIN leads_db') = Cardinality(DOMAIN leads_db) + 1
                     /\ \A k \in DOMAIN leads_db :
                            k \in DOMAIN leads_db' /\ leads_db'[k] = leads_db[k]]_vars

-----------------------------------------------------------------------------
(* Requests in flight: POST /leads/enrich of backend/api/routes.py *)

\* requests the router serves in one run
MaxRequests == 3

InitRoutes ==
    /\ model = EngineInit([given |-> FALSE])
    /\ lead = MinimalLead
    /\ now = Clocks[1]
    /\ op = "init"
    /\ score = NoScore
    /\ qual = NoQual
    /\ prev = NoPrev
    /\ args = NoArgs
    /\ ret = NoRet
    /\ leads_db = <<>>
    /\ leads_storage = <<>>
    /\ tasks = <<>>
    /\ semaphore = 0

\* enrich_and_score_lead up to its await: the Lead is built, its id is set from
\* the size of leads_storage, and enrich_lead suspends in asyncio.gather (every
\* lead here has a domain, so there is something to gather)
EnrichAndScoreLeadBegin ==
    /\ Len(tasks) < MaxRequests
    /\ \E l \in {SmokeLead, MinimalLead} :
          tasks' = Append(tasks,
                     [pc |-> "await_enrich_lead",
                      lead |-> [l EXCEPT
                                  !.id = Str(LeadId(Cardinality(DOMAIN leads_storage) + 1))]])
    /\ UNCHANGED <<model, lead, now, op, score, qual, prev, args, ret, leads_db,
                   leads_storage, semaphore>>

\* enrich_and_score_lead from the await on: the results are merged, the lead is
\* scored and qualified and stored under its id; an exception becomes a 500
EnrichAndScoreLeadResume ==
    /\ \E i \in DOMAIN tasks, clearbit_ok \in BOOLEAN :
          /\ tasks[i].pc = "await_enrich_lead"
          /\ \E r \in {ProcessLead(model, now, tasks[i].lead, clearbit_ok, TRUE)} :
                IF r.err
                THEN /\ tasks' = [tasks EXCEPT ![i].pc = "failed"]
                     /\ leads_storage' = leads_storage
                ELSE /\ tasks' = [tasks EXCEPT ![i].pc = "stored"]
                     /\ leads_storage' = StorePut(leads_storage, tasks[i].lead.id.s,
                                                  r.stored)
    /\ UNCHANGED <<model, lead, now, op, score, qual, prev, args, ret, leads_db,
                   semaphore>>

NextRoutes == EnrichAndScoreLeadBegin \/ EnrichAndScoreLeadResume

SpecRoutes == InitRoutes /\ [][NextRoutes]_vars

\* C29: two /leads/enrich requests that have both stored their lead used
\* distinct ids, and both ids are in leads_storage.
C29_DistinctIds ==
    \A i, j \in DOMAIN tasks :
        (i # j /\ tasks[i].pc = "stored" /\ tasks[j].pc = "stored")
        => /\ tasks[i].lead.id # tasks[j].lead.id
           /\ tasks[i].lead.id.s \in DOMAIN leads_storage
           /\ tasks[j].lead.id.s \in DOMAIN leads_storage

-----------------------------------------------------------------------------
(* batch_enrich_leads: enrich_lead calls under an asyncio.Semaphore *)

\* leads of one batch and values of max_concurrent
MaxBatch == 4
MaxConcurrent == 3

\* the leads handed to batch_enrich_leads
BatchLeads(n) ==
    [i \in 1..n |-> IF i % 2 = 1 THEN SmokeLead ELSE MinimalLead]

InitBatch ==
    /\ args \in [leads : {BatchLeads(n) : n \in 1..MaxBatch},
                 max_concurrent : 1..MaxConcurrent]
    /\ model = EngineInit([given |-> FALSE])
    /\ lead = MinimalLead
    /\ now = Clocks[1]
    /\ op = "init"
    /\ score = NoScore
    /\ qual = NoQual
    /\ prev = NoPrev
    /\ ret = NoRet
    /\ leads_db = <<>>
    /\ leads_storage = <<>>
    /\ tasks = <<>>
    /\ semaphore = 0

\* batch_enrich_leads up to its await: the semaphore is created with
\* max_concurrent slots and one enrich_with_semaphore task per lead is gathered
BatchEnrichLeadsCall ==
    /\ op = "init"
    /\ semaphore' = args.max_concurrent
    /\ tasks' = [i \in DOMAIN args.leads |-> [pc |-> "start", lead |-> args.leads[i]]]
    /\ op' = "gather"
    /\ UNCHANGED <<model, lead, now, score, qual, prev, args, ret, leads_db,
                   leads_storage>>

\* "async with semaphore" entered without taking a slot
EnrichWithSemaphoreAcquireUnguarded ==
    /\ \E i \in DOMAIN tasks :
          /\ tasks[i].pc \in {"start", "waiting"}
          /\ tasks' = [tasks EXCEPT ![i].pc = "enrich_lead"]
    /\ semaphore' = semaphore
    /\ UNCHANGED <<model, lead, now, op, score, qual, prev, args, ret, leads_db,
                   leads_storage>>

\* "async with semaphore": a task that starts, or one that was woken, takes a
\* free slot and suspends inside enrich_lead
EnrichWithSemaphoreAcquire ==
    /\ \E i \in DOMAIN tasks :
          /\ tasks[i].pc \in {"start", "waiting"}
          /\ semaphore > 0
          /\ tasks' = [tasks EXCEPT ![i].pc = "enrich_lead"]
    /\ semaphore' = semaphore - 1
    /\ UNCHANGED <<model, lead, now, op, score, qual, prev, args, ret, leads_db,
                   leads_storage>>

\* "async with semaphore" with no free slot: the task waits
EnrichWithSemaphoreWait ==
    /\ \E i \in DOMAIN tasks :
          /\ tasks[i].pc = "start"
          /\ semaphore = 0
          /\ tasks' = [tasks EXCEPT ![i].pc = "waiting"]
    /\ UNCHANGED <<model, lead, now, op, score, qual, prev, args, ret, leads_db,
                   leads_storage, semaphore>>

\* enrich_lead returns inside the "async with": the slot is released
EnrichWithSemaphoreRelease ==
    /\ \E i \in DOMAIN tasks, clearbit_ok \in BOOLEAN :
          /\ tasks[i].pc = "enrich_lead"
          /\ tasks' = [tasks EXCEPT
                          ![i] = [pc |-> "done",
                                  lead |-> EnrichLead(now, @.lead, clearbit_ok, TRUE)]]
    /\ semaphore' = semaphore + 1
    /\ UNCHANGED <<model, lead, now, op, score, qual, prev, args, ret, leads_db,
                   leads_storage>>

\* asyncio.gather completes: batch_enrich_leads returns the enriched leads
BatchEnrichLeadsReturn ==
    /\ op = "gather"
    /\ \A i \in DOMAIN tasks : tasks[i].pc = "done"
    /\ ret' = [i \in DOMAIN tasks |-> tasks[i].lead]
    /\ op' = "batch_enrich_leads"
    /\ UNCHANGED <<model, lead, now, score, qual, prev, args, leads_db,
                   leads_storage, tasks, semaphore>>

NextBatch ==
    \/ BatchEnrichLeadsCall
    \/ EnrichWithSemaphoreAcquire
    \/ EnrichWithSemaphoreWait
    \/ EnrichWithSemaphoreRelease
    \/ BatchEnrichLeadsReturn

SpecBatch == InitBatch /\ [][NextBatch]_vars

\* the tasks suspended inside enrich_lead
InProgress == {i \in DOMAIN tasks : tasks[i].pc = "enrich_lead"}

\* C30: during batch_enrich_leads at most max_concurrent enrich_lead calls are
\* in progress at any time.
C30_BoundedConcurrency ==
    /\ Cardinality(InProgress) <= args.max_concurrent
    /\ op = "gather" => semaphore = args.max_concurrent - Cardinality(InProgress)

\* max_concurrent calls in progress, another task waiting for a slot and one
\* call completed
C30_Witness ==
    /\ op = "gather"
    /\ args.max_concurrent = 2
    /\ Cardinality(InProgress) = 2
    /\ \E i \in DOMAIN tasks : tasks[i].pc = "waiting"
    /\ \E i \in DOMAIN tasks : tasks[i].pc = "done"

=============================================================================
